---------------------------- MODULE Spec2Model ----------------------------
(***************************************************************************)
(* Risk calculation and decision synthesis core of the crypto trading      *)
(* system: the position sizer and the Kelly optimizer of the risk server   *)
(* (servers/crypto-risk-mcp/main.py), the confidence gate of the AI server *)
(* (servers/crypto-ai-mcp/main.py) and the decision engine of the client   *)
(* (client/crypto_trader.py).                                              *)
(*                                                                         *)
(* Python floats are modelled as exact rationals [n, d] in lowest terms;   *)
(* round(x, k) is modelled as rounding to k decimals, ties to even.        *)
(***************************************************************************)
EXTENDS Integers, Sequences, FiniteSets, TLC

VARIABLES
    ps_in,        \* arguments of the last calculate_position_size tool call
    ps_out,       \* what that call returned
    kelly_in,     \* arguments of the last optimize_kelly_criterion call
    kelly_out,    \* what that call returned
    max_drawdown_call,  \* the last RiskCalculator.calculate_max_drawdown call
    correlation_call,   \* the last RiskCalculator.assess_correlation_risk call
    risk_alerts_call,   \* the last RiskCalculator.generate_risk_alerts call
    alerts_tool_call,   \* the last call of the generate_risk_alerts tool
    mcp_connections,        \* the servers in mcp_manager.connections
    trader_min_confidence,  \* CryptoTrader.min_confidence
    mode,         \* trading_config['mode'], the AI's risk tolerance
    cycle_analysis,         \* the analysis of the current cycle
    ai_out,       \* what the AI collaborator answered in this cycle
    risk_out,     \* the position-size call of this cycle and its answer
    decision,     \* what make_trading_decision returned or raised
    cycle_calls,  \* the calls make_trading_decision made, in order
    pc,           \* where the trading cycle stands
    cache,        \* SimpleCache._cache
    clock,        \* utc_now().timestamp(), in seconds
    cache_call,   \* the last operation on the cache and what it returned
    last_set,     \* per key, the last set() not undone by delete() or clear()
    emergency_stop,   \* CryptoTrader.emergency_stop
    paper_trading,    \* CryptoTrader.paper_trading
    trade_history,    \* CryptoTrader.trade_history
    loop_pc,      \* where start_trading stands
    tasks,        \* the source calls of this cycle's analysis, by key
    analysis_out, \* what perform_market_analysis returned in this cycle
    execution,    \* the execute_trade call of this cycle and its result
    orders,       \* the place_order requests that reached the exchange
    caught,       \* the exceptions the loop has caught, in order
    disconnects,  \* how many times disconnect_all has run
    cycles        \* how many analysis cycles have started

portfolio_vars ==
    <<max_drawdown_call, correlation_call, risk_alerts_call, alerts_tool_call>>

risk_vars == <<ps_in, ps_out, kelly_in, kelly_out, portfolio_vars>>

trader_vars ==
    <<mcp_connections, trader_min_confidence, mode, cycle_analysis, ai_out,
      risk_out, decision, cycle_calls, pc>>

cache_vars == <<cache, clock, cache_call, last_set>>

loop_vars ==
    <<emergency_stop, paper_trading, trade_history, loop_pc, tasks,
      analysis_out, execution, orders, caught, disconnects, cycles>>

runtime_vars == <<cache_vars, loop_vars>>

vars == <<risk_vars, trader_vars, runtime_vars>>

NoCall == [called |-> FALSE]

-----------------------------------------------------------------------------
(* Exact rational arithmetic standing for Python's float arithmetic.       *)

RECURSIVE GCD(_, _)
GCD(a, b) == IF b = 0 THEN a ELSE GCD(b, a % b)

Abs(x) == IF x < 0 THEN -x ELSE x

Rat(n, d) ==
    LET s == IF d < 0 THEN -1 ELSE 1
        g == GCD(Abs(n), Abs(d))
    IN  [n |-> (s * n) \div g, d |-> (s * d) \div g]

RMul(a, b) ==
    LET g1 == GCD(Abs(a.n), b.d)
        g2 == GCD(Abs(b.n), a.d)
    IN  Rat((a.n \div g1) * (b.n \div g2), (a.d \div g2) * (b.d \div g1))

RInv(a) == Rat(a.d, a.n)

RDiv(a, b) == RMul(a, RInv(b))

RAdd(a, b) ==
    LET g == GCD(a.d, b.d)
    IN  Rat(a.n * (b.d \div g) + b.n * (a.d \div g), (a.d \div g) * b.d)

RNeg(a) == [n |-> -a.n, d |-> a.d]

RSub(a, b) == RAdd(a, RNeg(b))

RAbs(a) == [n |-> Abs(a.n), d |-> a.d]

RLt(a, b) ==
    LET g == GCD(a.d, b.d)
    IN  a.n * (b.d \div g) < b.n * (a.d \div g)

RLe(a, b) == ~RLt(b, a)

RMin(a, b) == IF RLt(b, a) THEN b ELSE a

RMax(a, b) == IF RLt(a, b) THEN b ELSE a

Zero == Rat(0, 1)

One == Rat(1, 1)

RECURSIVE Pow10(_)
Pow10(k) == IF k = 0 THEN 1 ELSE 10 * Pow10(k - 1)

\* Long division: k decimal digits of rem/d, as <<digits, remainder>>.
RECURSIVE Digits(_, _, _, _)
Digits(acc, rem, d, k) ==
    IF k = 0 THEN <<acc, rem>>
    ELSE Digits(acc * 10 + ((rem * 10) \div d), (rem * 10) % d, d, k - 1)

\* round(x, ndigits): the nearest multiple of 10^-ndigits, ties to even.
Round(x, ndigits) ==
    LET ip   == x.n \div x.d
        dg   == Digits(0, x.n % x.d, x.d, ndigits)
        low  == ip * Pow10(ndigits) + dg[1]
        up   == \/ 2 * dg[2] > x.d
                \/ 2 * dg[2] = x.d /\ low % 2 = 1
    IN  Rat(IF up THEN low + 1 ELSE low, Pow10(ndigits))

-----------------------------------------------------------------------------
(* shared/exceptions.py: exceptions are records; a call either returns a   *)
(* value or raises an exception.                                           *)

Return(v) == [raised |-> FALSE, value |-> v]

Raise(e) == [raised |-> TRUE, exc |-> e]

Exception(type, message) ==
    [type |-> type, message |-> message, code |-> "", severity |-> "",
     category |-> "", trading |-> FALSE, valid_methods |-> {}]

\* BaseTradingError.__init__ and to_dict's fields.
BaseTradingError(type, message, error_code, severity, category) ==
    [type |-> type, message |-> message, code |-> error_code,
     severity |-> severity, category |-> category, trading |-> TRUE,
     valid_methods |-> {}]

\* TradingSystemError(message, **kwargs); severity defaults to medium.
TradingSystemError(message) ==
    BaseTradingError("TradingSystemError", message, "TRADING_SYSTEM_ERROR",
                     "medium", "system")

\* ValidationError(message, field, value, **kwargs) fills its defaults with
\* setdefault and passes them on once.
ValidationError(message) ==
    BaseTradingError("ValidationError", message, "VALIDATION_ERROR",
                     "medium", "validation")

\* ValidationError(message, field=..., value=..., details={"valid_methods":
\* [...]}): the details carry the list; valid_methods is empty in an error
\* whose details have no such list.
ValidationErrorListing(message, valid_methods) ==
    [ValidationError(message) EXCEPT !.valid_methods = valid_methods]

\* RiskManagementError.__init__(message, **kwargs) passes error_code, category
\* and severity by keyword AND forwards **kwargs: a keyword given twice is a
\* TypeError of the call.
RiskManagementError(type, message, kwargs) ==
    IF kwargs \cap {"error_code", "category", "severity"} # {}
    THEN Exception("TypeError",
                   "__init__() got multiple values for keyword argument")
    ELSE BaseTradingError(type, message, "RISK_MANAGEMENT_ERROR", "high",
                          "risk_management")

\* PositionSizingError.__init__ does kwargs.setdefault("error_code", ...) and
\* then calls RiskManagementError.__init__(message, **kwargs).
PositionSizingError(message, kwargs) ==
    RiskManagementError("PositionSizingError", message,
                        kwargs \cup {"error_code"})

\* handle_error(error, context, reraise=False): the standardized response.
handle_error(error) ==
    LET e == IF error.trading THEN error
             ELSE TradingSystemError(error.message)
    IN  [success |-> FALSE,
         error |-> [dict |-> TRUE, code |-> e.code, message |-> e.message,
                    severity |-> e.severity, category |-> e.category]]

\* An "error" that is a plain message string, not handle_error's dict.
ErrorString(message) ==
    [dict |-> FALSE, code |-> "", message |-> message, severity |-> "",
     category |-> ""]

\* validate_numeric_range(value, min_value, max_value, field_name); an absent
\* limit (None) is the empty set, a given one a singleton.
validate_numeric_range(value, min_value, max_value, field_name) ==
    IF \E m \in min_value : RLt(value, m)
    THEN Raise(ValidationError(field_name \o " must be at least min_value"))
    ELSE IF \E m \in max_value : RLt(m, value)
    THEN Raise(ValidationError(field_name \o " must be at most max_value"))
    ELSE Return("ok")

-----------------------------------------------------------------------------
(* servers/crypto-risk-mcp/main.py: RiskCalculator.calculate_position_size *)

\* shared/constants.py, class RiskManagement
MAX_POSITION_SIZE == Rat(20, 100)

DEFAULT_WIN_RATE == Rat(60, 100)

MAX_KELLY_FRACTION == Rat(25, 100)

ValidMethods == {"fixed_percent", "kelly", "volatility"}

\* The four range checks, in the order the code makes them.
validate_inputs(account_balance, risk_per_trade, entry_price, stop_loss_price) ==
    << validate_numeric_range(account_balance, {Rat(1, 100)}, {},
                              "account_balance"),
       validate_numeric_range(risk_per_trade, {Rat(1, 1000)}, {Rat(5, 10)},
                              "risk_per_trade"),
       validate_numeric_range(entry_price, {Rat(1, 100)}, {}, "entry_price"),
       validate_numeric_range(stop_loss_price, {Rat(1, 100)}, {},
                              "stop_loss_price") >>

\* The first exception a sequence of calls raises, or Return("ok").
FirstRaised(calls) ==
    IF \E i \in DOMAIN calls : calls[i].raised
    THEN calls[CHOOSE i \in DOMAIN calls :
                 /\ calls[i].raised
                 /\ \A j \in DOMAIN calls : calls[j].raised => i <= j]
    ELSE Return("ok")

\* The branch of the method: the quantity and the method's confidence.
kelly_fraction_without_limit(price_risk) ==
    LET win_rate == DEFAULT_WIN_RATE
        avg_win  == RMul(price_risk, Rat(2, 1))
        avg_loss == price_risk
    IN  RDiv(RSub(RMul(win_rate, avg_win),
                  RMul(RSub(One, win_rate), avg_loss)), avg_win)

kelly_fraction(price_risk) ==
    LET win_rate == DEFAULT_WIN_RATE
        avg_win  == RMul(price_risk, Rat(2, 1))
        avg_loss == price_risk
        raw      == RDiv(RSub(RMul(win_rate, avg_win),
                              RMul(RSub(One, win_rate), avg_loss)), avg_win)
    IN  RMax(Zero, RMin(raw, MAX_KELLY_FRACTION))

method_confidence(method) ==
    CASE method = "fixed_percent" -> Rat(8, 10)
      [] method = "kelly"         -> Rat(9, 10)
      [] method = "volatility"    -> Rat(7, 10)
      [] OTHER                    -> Rat(6, 10)

quantity_for_doubled_price_risk(risk_amount, price_risk) ==
    RDiv(risk_amount, RMul(Rat(2, 1), price_risk))

\* Line 129: the quantity that loses risk_amount over price_risk.
fixed_percent_quantity(risk_amount, price_risk) ==
    RDiv(risk_amount, price_risk)

\* Lines 156-157: the risk amount times 1 / volatility_factor.
volatility_adjusted_risk(risk_amount) ==
    LET volatility_factor == Rat(8, 10)
    IN  RMul(risk_amount, RDiv(One, volatility_factor))

method_quantity(method, account_balance, risk_amount, price_risk) ==
    CASE method = "fixed_percent" ->
            Return(fixed_percent_quantity(risk_amount, price_risk))
      [] method = "kelly" ->
            IF RLe(RMul(price_risk, Rat(2, 1)), Zero)
            THEN Raise(PositionSizingError(
                     "Invalid Kelly calculation: average win must be greater than zero",
                     {"details"}))
            ELSE Return(RDiv(RMul(account_balance, kelly_fraction(price_risk)),
                             price_risk))
      [] method = "volatility" ->
            Return(RDiv(volatility_adjusted_risk(risk_amount), price_risk))
      [] OTHER ->
            Return(RDiv(risk_amount, price_risk))

\* cap_position with line 175 left out: the quantity is cut, the notional
\* value reported is still the uncapped one.
cap_position_stale_notional(quantity, confidence, account_balance, entry_price) ==
    LET notional_value     == RMul(quantity, entry_price)
        max_position_value == RMul(account_balance, MAX_POSITION_SIZE)
    IN  IF RLt(max_position_value, notional_value)
        THEN [quantity       |-> RDiv(max_position_value, entry_price),
              notional_value |-> notional_value,
              confidence     |-> RMul(confidence, Rat(8, 10))]
        ELSE [quantity       |-> quantity,
              notional_value |-> notional_value,
              confidence     |-> confidence]

\* cap_position with line 174 left out: the quantity is not rescaled.
cap_position_keeps_quantity(quantity, confidence, account_balance, entry_price) ==
    LET notional_value     == RMul(quantity, entry_price)
        max_position_value == RMul(account_balance, MAX_POSITION_SIZE)
    IN  IF RLt(max_position_value, notional_value)
        THEN [quantity       |-> quantity,
              notional_value |-> max_position_value,
              confidence     |-> RMul(confidence, Rat(8, 10))]
        ELSE [quantity       |-> quantity,
              notional_value |-> notional_value,
              confidence     |-> confidence]

\* Lines 166-176: the cap on the notional value.
cap_position(quantity, confidence, account_balance, entry_price) ==
    LET notional_value     == RMul(quantity, entry_price)
        max_position_value == RMul(account_balance, MAX_POSITION_SIZE)
    IN  IF RLt(max_position_value, notional_value)
        THEN [quantity       |-> RDiv(max_position_value, entry_price),
              notional_value |-> max_position_value,
              confidence     |-> RMul(confidence, Rat(8, 10))]
        ELSE [quantity       |-> quantity,
              notional_value |-> notional_value,
              confidence     |-> confidence]

\* Lines 178-184: the PositionSize that is returned.
PositionSize(quantity, notional_value, risk_amount, confidence) ==
    [quantity       |-> Round(quantity, 8),
     notional_value |-> Round(notional_value, 2),
     risk_amount    |-> Round(risk_amount, 2),
     confidence     |-> confidence]

\* Lines 114-184: the body of the try block.
position_size_try(account_balance, risk_per_trade, entry_price, stop_loss_price, method) ==
    LET risk_amount == RMul(account_balance, risk_per_trade)
        price_risk  == RAbs(RSub(entry_price, stop_loss_price))
    IN  IF RLe(price_risk, Zero)
        THEN Raise(PositionSizingError(
                 "Price risk must be greater than zero (entry price cannot equal stop loss price)",
                 {"details"}))
        ELSE LET q == method_quantity(method, account_balance, risk_amount,
                                      price_risk)
             IN  IF q.raised THEN q
                 ELSE LET c == cap_position(q.value, method_confidence(method),
                                            account_balance, entry_price)
                      IN  Return(PositionSize(c.quantity, c.notional_value,
                                              risk_amount, c.confidence))

\* Lines 186-200: our own errors are re-raised, anything else is wrapped in a
\* PositionSizingError (whose construction is itself a call that can raise).
position_size_except(r) ==
    IF ~r.raised THEN r
    ELSE IF r.exc.type \in {"PositionSizingError", "ValidationError"} THEN r
    ELSE Raise(PositionSizingError(
             "Failed to calculate position size due to unexpected error",
             {"details", "cause"}))

\* The computation entered before the arguments are validated.
calculate_position_size_computing_first(account_balance, risk_per_trade, entry_price, stop_loss_price, method) ==
    LET v == FirstRaised(validate_inputs(account_balance, risk_per_trade,
                                         entry_price, stop_loss_price))
    IN  IF entry_price = stop_loss_price
        THEN position_size_except(
                 position_size_try(account_balance, risk_per_trade,
                                   entry_price, stop_loss_price, method))
        ELSE IF v.raised THEN v
        ELSE IF method \notin ValidMethods
        THEN Raise(ValidationErrorListing("Invalid position sizing method",
                                          ValidMethods))
        ELSE position_size_except(
                 position_size_try(account_balance, risk_per_trade,
                                   entry_price, stop_loss_price, method))

calculate_position_size(account_balance, risk_per_trade, entry_price, stop_loss_price, method) ==
    LET v == FirstRaised(validate_inputs(account_balance, risk_per_trade,
                                         entry_price, stop_loss_price))
    IN  IF v.raised THEN v
        ELSE IF method \notin ValidMethods
        THEN Raise(ValidationErrorListing("Invalid position sizing method",
                                          ValidMethods))
        ELSE position_size_except(
                 position_size_try(account_balance, risk_per_trade,
                                   entry_price, stop_loss_price, method))

\* Lines 443-478: the calculate_position_size tool.
calculate_position_size_tool(account_balance, risk_per_trade, entry_price, stop_loss_price, method) ==
    LET r == calculate_position_size(account_balance, risk_per_trade,
                                     entry_price, stop_loss_price, method)
    IN  IF r.raised THEN handle_error(r.exc)
        ELSE [success |-> TRUE,
              position_size |-> r.value,
              risk_metrics |->
                  [risk_per_trade_percent |-> RMul(risk_per_trade, Rat(100, 1)),
                   position_value_percent |->
                       RMul(RDiv(r.value.notional_value, account_balance),
                            Rat(100, 1)),
                   price_risk |-> RAbs(RSub(entry_price, stop_loss_price)),
                   max_loss |-> r.value.risk_amount],
              method |-> method]

-----------------------------------------------------------------------------
(* servers/crypto-risk-mcp/main.py: the optimize_kelly_criterion tool      *)

\* The largest i with 2^i <= x, for a rational x >= 1.
RECURSIVE FloorLog2(_)
FloorLog2(x) ==
    IF RLt(x, Rat(2, 1)) THEN 0 ELSE 1 + FloorLog2(RMul(x, Rat(1, 2)))

\* float ** float raises OverflowError when the result exceeds the largest
\* double (2^1024). base^exponent is bracketed by powers of two; where the
\* bracket does not decide, both outcomes are possible.
PowOverflows(base, exponent) ==
    IF RLe(base, One) THEN {FALSE}
    ELSE LET lo == RMul(exponent, Rat(FloorLog2(base), 1))
             hi == RMul(exponent, Rat(FloorLog2(base) + 1, 1))
         IN  IF RLe(Rat(1024, 1), lo) THEN {TRUE}
             ELSE IF RLt(hi, Rat(1024, 1)) THEN {FALSE}
             ELSE {TRUE, FALSE}

\* Line 746: the limit applied to the raw fraction.
clamp_kelly(kelly, max_kelly) == RMax(Zero, RMin(kelly, max_kelly))

\* Lines 752-756 and 766: min(1.0, risk_of_ruin). A power of a base below 1
\* is kept symbolic; a power of a base of at least 1 is cut to 1.
risk_of_ruin(p, q, kelly) ==
    IF RLt(Zero, kelly) /\ RLt(kelly, One) /\ RLt(RDiv(q, p), One)
    THEN [pow |-> TRUE, base |-> RDiv(q, p), exponent |-> RDiv(One, kelly)]
    ELSE [pow |-> FALSE, base |-> One, exponent |-> One]

\* Lines 722-782. pow_overflows: whether the power of line 754 overflows.
optimize_kelly_criterion(win_rate, avg_win, avg_loss, max_kelly, pow_overflows) ==
    IF RLe(win_rate, Zero) \/ RLe(One, win_rate)
    THEN [success |-> FALSE, error |-> ErrorString("Win rate must be between 0 and 1")]
    ELSE IF RLe(avg_win, Zero) \/ RLe(avg_loss, Zero)
    THEN [success |-> FALSE,
          error |-> ErrorString(
                       "Average win and loss amounts must be positive")]
    ELSE
      LET b == RDiv(avg_win, avg_loss)
          pp == win_rate
          q == RSub(One, win_rate)
          kelly == RDiv(RSub(RMul(b, pp), q), b)
          optimal_kelly == clamp_kelly(kelly, max_kelly)
          expected_value == RSub(RMul(pp, avg_win), RMul(q, avg_loss))
      IN  IF RLt(Zero, kelly) /\ RLt(kelly, One) /\ pow_overflows
          THEN handle_error(Exception("OverflowError",
                                      "Numerical result out of range"))
          ELSE [success |-> TRUE,
                kelly_calculation |->
                    [raw_kelly_fraction |-> kelly,
                     optimal_kelly_fraction |-> optimal_kelly,
                     recommended_position_size_percent |->
                         RMul(optimal_kelly, Rat(100, 1)),
                     expected_value |-> expected_value,
                     odds_ratio |-> b,
                     risk_of_ruin |-> risk_of_ruin(pp, q, kelly)],
                interpretation |->
                    [recommendation |->
                         IF RLt(Rat(5, 100), optimal_kelly) THEN "increase_size"
                         ELSE IF RLt(optimal_kelly, Rat(2, 100))
                         THEN "decrease_size" ELSE "maintain",
                     risk_level |->
                         IF RLt(Rat(15, 100), optimal_kelly) THEN "high"
                         ELSE IF RLt(Rat(5, 100), optimal_kelly) THEN "medium"
                         ELSE "low"]]

\* The outcomes line 754 can have for these arguments.
KellyPowOutcomes(win_rate, avg_win, avg_loss) ==
    IF RLe(win_rate, Zero) \/ RLe(One, win_rate) \/ RLe(avg_win, Zero)
       \/ RLe(avg_loss, Zero)
    THEN {FALSE}
    ELSE LET b == RDiv(avg_win, avg_loss)
             q == RSub(One, win_rate)
             kelly == RDiv(RSub(RMul(b, win_rate), q), b)
         IN  IF RLt(Zero, kelly) /\ RLt(kelly, One)
             THEN PowOverflows(RDiv(q, win_rate), RDiv(One, kelly))
             ELSE {FALSE}

-----------------------------------------------------------------------------
(* servers/crypto-risk-mcp/main.py: the portfolio metrics of RiskCalculator *)

RECURSIVE total(_)
total(values) ==
    IF values = <<>> THEN Zero ELSE RAdd(Head(values), total(Tail(values)))

\* np.cumsum
cumsum(values) ==
    [t \in DOMAIN values |-> total(SubSeq(values, 1, t))]

\* The largest and the smallest element of a non-empty array.
amax(values) ==
    CHOOSE m \in {values[i] : i \in DOMAIN values} :
        \A i \in DOMAIN values : RLe(values[i], m)

amin(values) ==
    CHOOSE m \in {values[i] : i \in DOMAIN values} :
        \A i \in DOMAIN values : RLe(m, values[i])

\* np.maximum.accumulate
maximum_accumulate(values) ==
    [t \in DOMAIN values |-> amax(SubSeq(values, 1, t))]

\* Line 272: the drawdowns relative to max(running_max, 1).
drawdowns_of(cumulative_pnl, running_max) ==
    [t \in DOMAIN cumulative_pnl |->
        RDiv(RSub(cumulative_pnl[t], running_max[t]),
             RMax(running_max[t], One))]

\* Lines 261-282.
calculate_max_drawdown(pnl_history) ==
    IF Len(pnl_history) < 2 THEN Return(Zero)
    ELSE LET cumulative_pnl == cumsum(pnl_history)
             running_max == maximum_accumulate(cumulative_pnl)
             drawdowns == drawdowns_of(cumulative_pnl, running_max)
         IN  Return(RAbs(amin(drawdowns)))

\* A symbol is the sequence of its characters. `sub in symbol`:
contains(symbol, sub) ==
    \E i \in 1..(Len(symbol) - Len(sub) + 1) :
        SubSeq(symbol, i, i + Len(sub) - 1) = sub

\* symbol.endswith(suffix)
endswith(symbol, suffix) ==
    /\ Len(suffix) <= Len(symbol)
    /\ SubSeq(symbol, Len(symbol) - Len(suffix) + 1, Len(symbol)) = suffix

BTC == <<"B", "T", "C">>

ETH == <<"E", "T", "H">>

USDT == <<"U", "S", "D", "T">>

\* The quote currency tested before the asset types.
pair_correlation_by_quote(symbol1, symbol2) ==
    IF endswith(symbol1, USDT) /\ endswith(symbol2, USDT) THEN Rat(70, 100)
    ELSE IF contains(symbol1, BTC) /\ contains(symbol2, BTC) THEN Rat(95, 100)
    ELSE IF (contains(symbol1, BTC) \/ contains(symbol1, ETH))
            /\ (contains(symbol2, BTC) \/ contains(symbol2, ETH))
    THEN Rat(85, 100)
    ELSE Rat(60, 100)

\* Lines 327-334: the assumed correlation of two symbols.
pair_correlation(symbol1, symbol2) ==
    IF contains(symbol1, BTC) /\ contains(symbol2, BTC) THEN Rat(95, 100)
    ELSE IF (contains(symbol1, BTC) \/ contains(symbol1, ETH))
            /\ (contains(symbol2, BTC) \/ contains(symbol2, ETH))
    THEN Rat(85, 100)
    ELSE IF endswith(symbol1, USDT) /\ endswith(symbol2, USDT)
    THEN Rat(70, 100)
    ELSE Rat(60, 100)

\* Lines 321-336: the correlations of the pairs i < j, from pair (i, j) on,
\* in the order of the two loops.
RECURSIVE pair_correlations(_, _, _)
pair_correlations(symbols, i, j) ==
    IF i > Len(symbols) THEN <<>>
    ELSE IF j > Len(symbols) THEN pair_correlations(symbols, i + 1, i + 2)
    ELSE <<pair_correlation(symbols[i], symbols[j])>>
             \o pair_correlations(symbols, i, j + 1)

\* np.mean
mean(values) == RDiv(total(values), Rat(Len(values), 1))

\* Lines 341-346.
correlation_risk_level(max_correlation) ==
    IF RLt(Rat(8, 10), max_correlation) THEN "high"
    ELSE IF RLt(Rat(6, 10), max_correlation) THEN "medium"
    ELSE "low"

\* Lines 307-353, on the symbols of the positions.
assess_correlation_risk(symbols) ==
    IF Len(symbols) < 2
    THEN Return([avg_correlation |-> Zero, max_correlation |-> Zero,
                 risk_level |-> "low"])
    ELSE LET correlations == pair_correlations(symbols, 1, 2)
             max_correlation == amax(correlations)
         IN  Return([avg_correlation |-> mean(correlations),
                     max_correlation |-> max_correlation,
                     risk_level |-> correlation_risk_level(max_correlation)])

\* shared/constants.py, class RiskManagement
MAX_PORTFOLIO_RISK == Rat(2, 100)

MAX_DRAWDOWN == Rat(15, 100)

MAX_CORRELATION == Rat(7, 10)

STOP_LOSS_PERCENT == Rat(5, 100)

TAKE_PROFIT_RATIO == Rat(2, 1)

HIGH_CORRELATION_THRESHOLD == Rat(8, 10)

DEMO_ACCOUNT_BALANCE == Rat(100000, 1)

\* The dataclass RiskParameters with its defaults.
RiskParameters ==
    [max_position_size |-> MAX_POSITION_SIZE,
     max_portfolio_risk |-> MAX_PORTFOLIO_RISK,
     max_drawdown |-> MAX_DRAWDOWN,
     max_correlation |-> MAX_CORRELATION,
     stop_loss_percent |-> STOP_LOSS_PERCENT,
     take_profit_ratio |-> TAKE_PROFIT_RATIO]

\* shared_types.RiskAlert, without its timestamp and message.
RiskAlert(level, metric, current_value, threshold) ==
    [level |-> level, metric |-> metric, current_value |-> current_value,
     threshold |-> threshold]

\* Lines 372-379. An optional sharpe_ratio is None or Some(x).
var_alert(portfolio_metrics, risk_params) ==
    LET threshold == RMul(risk_params.max_portfolio_risk, DEMO_ACCOUNT_BALANCE)
    IN  IF RLt(threshold, portfolio_metrics.var_1d)
        THEN <<RiskAlert("warning", "var_1d", portfolio_metrics.var_1d,
                         threshold)>>
        ELSE <<>>

\* Lines 382-389.
drawdown_alert(portfolio_metrics, risk_params) ==
    IF RLt(risk_params.max_drawdown, portfolio_metrics.max_drawdown)
    THEN <<RiskAlert("critical", "max_drawdown",
                     portfolio_metrics.max_drawdown, risk_params.max_drawdown)>>
    ELSE <<>>

\* Lines 392-399.
correlation_alert(portfolio_metrics, risk_params) ==
    IF portfolio_metrics.correlation_risk = "high"
    THEN <<RiskAlert("warning", "correlation_risk",
                     HIGH_CORRELATION_THRESHOLD, risk_params.max_correlation)>>
    ELSE <<>>

\* Lines 402-409.
sharpe_alert(portfolio_metrics) ==
    IF portfolio_metrics.sharpe_ratio.some
       /\ RLt(portfolio_metrics.sharpe_ratio.v, Rat(5, 10))
    THEN <<RiskAlert("warning", "sharpe_ratio",
                     portfolio_metrics.sharpe_ratio.v, Rat(5, 10))>>
    ELSE <<>>

\* The rules as an if / elif chain: the first rule that fires ends the
\* evaluation.
generate_risk_alerts_first_match(portfolio_metrics, risk_params) ==
    LET all == var_alert(portfolio_metrics, risk_params)
                   \o drawdown_alert(portfolio_metrics, risk_params)
                   \o correlation_alert(portfolio_metrics, risk_params)
                   \o sharpe_alert(portfolio_metrics)
    IN  Return(IF all = <<>> THEN <<>> ELSE <<Head(all)>>)

\* Lines 362-418: RiskCalculator.generate_risk_alerts.
generate_risk_alerts(portfolio_metrics, risk_params) ==
    Return(var_alert(portfolio_metrics, risk_params)
               \o drawdown_alert(portfolio_metrics, risk_params)
               \o correlation_alert(portfolio_metrics, risk_params)
               \o sharpe_alert(portfolio_metrics))

-----------------------------------------------------------------------------
(* servers/crypto-risk-mcp/main.py: the generate_risk_alerts tool          *)

\* shared/constants.py, class RiskManagement
CRITICAL_DRAWDOWN_THRESHOLD == Rat(15, 100)

WARNING_DRAWDOWN_THRESHOLD == Rat(10, 100)

ELEVATED_DRAWDOWN_THRESHOLD == Rat(8, 100)

SIGNIFICANT_DAILY_LOSS == Rat(5000, 1)

MODERATE_DAILY_LOSS == Rat(1000, 1)

VAR_BREACH_WARNING_THRESHOLD == 2

ToolAlert(level, metric) == [level |-> level, metric |-> metric]

\* Lines 615-656: the alerts of the tool.
tool_alerts(current_drawdown, daily_pnl, var_breaches, correlation_level) ==
    (IF RLt(CRITICAL_DRAWDOWN_THRESHOLD, current_drawdown)
     THEN <<ToolAlert("critical", "drawdown")>>
     ELSE IF RLt(WARNING_DRAWDOWN_THRESHOLD, current_drawdown)
     THEN <<ToolAlert("warning", "drawdown")>>
     ELSE <<>>)
    \o (IF RLt(daily_pnl, RNeg(SIGNIFICANT_DAILY_LOSS))
        THEN <<ToolAlert("warning", "daily_pnl")>> ELSE <<>>)
    \o (IF var_breaches > VAR_BREACH_WARNING_THRESHOLD
        THEN <<ToolAlert("warning", "var_breaches")>> ELSE <<>>)
    \o (IF correlation_level = "high"
        THEN <<ToolAlert("warning", "correlation")>> ELSE <<>>)

\* Lines 658-669: the recommendations.
tool_recommendations(current_drawdown, var_breaches, correlation_level) ==
    (IF RLt(ELEVATED_DRAWDOWN_THRESHOLD, current_drawdown)
     THEN <<"Reduce position sizes by 25-50%", "Tighten stop-loss levels">>
     ELSE <<>>)
    \o (IF correlation_level = "high"
        THEN <<"Add uncorrelated assets to portfolio",
               "Consider market-neutral strategies">>
        ELSE <<>>)
    \o (IF var_breaches > 1
        THEN <<"Recalibrate risk model parameters",
               "Review historical volatility assumptions">>
        ELSE <<>>)

\* The score counted from the thresholds of the alerts.
risk_score_of_alert_thresholds(current_drawdown, daily_pnl, var_breaches, correlation_level) ==
    (IF RLt(CRITICAL_DRAWDOWN_THRESHOLD, current_drawdown) THEN 30 ELSE 0)
    + (IF RLt(daily_pnl, RNeg(SIGNIFICANT_DAILY_LOSS)) THEN 20 ELSE 0)
    + (IF var_breaches > VAR_BREACH_WARNING_THRESHOLD THEN 15 ELSE 0)
    + (IF correlation_level = "high" THEN 20 ELSE 0)

\* Lines 671-680.
risk_score(current_drawdown, daily_pnl, var_breaches, correlation_level) ==
    (IF RLt(STOP_LOSS_PERCENT, current_drawdown) THEN 30 ELSE 0)
    + (IF RLt(daily_pnl, RNeg(MODERATE_DAILY_LOSS)) THEN 20 ELSE 0)
    + (IF var_breaches > 0 THEN 15 ELSE 0)
    + (IF correlation_level = "high" THEN 20 ELSE 0)

\* Line 682.
score_risk_level(score) ==
    IF score < 25 THEN "low" ELSE IF score < 60 THEN "medium" ELSE "high"

\* Lines 589-700: the generate_risk_alerts tool.
generate_risk_alerts_tool(current_drawdown, daily_pnl, var_breaches, correlation_level) ==
    LET score == risk_score(current_drawdown, daily_pnl, var_breaches,
                            correlation_level)
    IN  [success |-> TRUE,
         risk_level |-> score_risk_level(score),
         risk_score |-> IF score < 100 THEN score ELSE 100,
         alerts |-> tool_alerts(current_drawdown, daily_pnl, var_breaches,
                                correlation_level),
         recommendations |-> tool_recommendations(current_drawdown,
                                                  var_breaches,
                                                  correlation_level),
         metrics_summary |-> [current_drawdown |-> current_drawdown,
                              daily_pnl |-> daily_pnl,
                              var_breaches |-> var_breaches,
                              correlation_level |-> correlation_level]]

-----------------------------------------------------------------------------
(* servers/crypto-ai-mcp/main.py: the generate_trading_signal tool         *)

\* An optional number: None, or a float.
None == [some |-> FALSE, v |-> Zero]

Some(x) == [some |-> TRUE, v |-> x]

\* Lines 707-717: the threshold and the adjustment of a risk tolerance.
tolerance_min_confidence(risk_tolerance) ==
    IF risk_tolerance = "low" THEN Rat(8, 10)
    ELSE IF risk_tolerance = "high" THEN Rat(5, 10)
    ELSE Rat(7, 10)

adjusted_confidence(base_confidence, risk_tolerance) ==
    IF risk_tolerance = "low" THEN RMul(base_confidence, Rat(8, 10))
    ELSE IF risk_tolerance = "high" THEN RMul(base_confidence, Rat(12, 10))
    ELSE base_confidence

\* Lines 663-759. synthesis is what analyzer.synthesize_analysis did: it
\* raised, or it returned an AnalysisResult.
generate_trading_signal(synthesis, risk_tolerance) ==
    IF synthesis.raised
    THEN [success |-> FALSE, error |-> "Trading signal generation failed"]
    ELSE IF ~synthesis.value.success
    THEN [success |-> FALSE, error |-> "Signal generation failed"]
    ELSE LET analysis == synthesis.value
             prediction == analysis.prediction
             adjusted == adjusted_confidence(analysis.confidence,
                                             risk_tolerance)
             below == RLt(adjusted, tolerance_min_confidence(risk_tolerance))
         IN  [success |-> TRUE,
              signal |->
                  [action |-> IF below THEN "hold"
                              ELSE prediction.recommendation,
                   confidence |-> RMin(One, adjusted),
                   original_confidence |-> analysis.confidence,
                   risk_tolerance |-> risk_tolerance,
                   target_price |-> prediction.target_price,
                   stop_loss |-> prediction.stop_loss],
              analysis |->
                  [reasoning |-> IF below
                                 THEN "Signal confidence below threshold"
                                 ELSE prediction.reasoning]]

-----------------------------------------------------------------------------
(* client/crypto_trader.py: MCPConnectionManager.call_tool and the         *)
(* decision engine of CryptoTrader.                                        *)

\* Lines 173-198. answer is what the server behind the connection did with
\* the request: it returned a response, or the call raised.
call_tool(connections, server_name, tool_name, answer) ==
    IF server_name \notin connections
    THEN Raise(TradingSystemError("Not connected to MCP server: "
                                  \o server_name))
    ELSE IF answer.raised /\ ~answer.exc.trading
    THEN Raise(TradingSystemError("Failed to call " \o tool_name \o " on "
                                  \o server_name))
    ELSE answer

\* shared/constants.py, class Trading.
DEFAULT_RISK_PER_TRADE == Rat(2, 100)

DEFAULT_MIN_CONFIDENCE == Rat(7, 10)

RULE_BASED_BUY_THRESHOLD == Rat(3, 10)

RULE_BASED_SELL_THRESHOLD == Rat(-3, 10)

CONFIDENCE_BOOST == Rat(3, 10)

MAX_RULE_CONFIDENCE == Rat(8, 10)

TECHNICAL_SIGNAL_WEIGHT == Rat(6, 10)

NEWS_SENTIMENT_WEIGHT == Rat(5, 10)

SOCIAL_SENTIMENT_WEIGHT == Rat(4, 10)

\* Line 570: the simulated balance; line 572: the default stop distance.
simulated_balance == Rat(10000, 1)

default_stop_loss_percent == Rat(5, 100)

\* An entry of the analysis dict. analysis.get(key, {}) of a missing key is
\* the empty dict, whose .get('success') is None.
Missing ==
    [present |-> FALSE, success |-> FALSE, overall_signal |-> "neutral",
     overall_sentiment |-> Some(Zero), price |-> Zero, error |-> ""]

\* {"success": False, "error": error}
FailedWith(error) ==
    [present |-> TRUE, success |-> FALSE, overall_signal |-> "neutral",
     overall_sentiment |-> Some(Zero), price |-> Zero, error |-> error]

Failed == FailedWith("API error: 500")

Technical(signal) ==
    [present |-> TRUE, success |-> TRUE, overall_signal |-> signal,
     overall_sentiment |-> Some(Zero), price |-> Zero, error |-> ""]

Sentiment(s) ==
    [present |-> TRUE, success |-> TRUE, overall_signal |-> "neutral",
     overall_sentiment |-> s, price |-> Zero, error |-> ""]

Market(p) ==
    [present |-> TRUE, success |-> TRUE, overall_signal |-> "neutral",
     overall_sentiment |-> Some(Zero), price |-> p, error |-> ""]

EmptyAnalysis ==
    [technical |-> Missing, news |-> Missing, social |-> Missing,
     market |-> Missing]

\* The entry is in the dict, whatever it says.
HasEntry(entry) == entry.present

\* entry.get('success') is truthy.
Succeeded(entry) == entry.present /\ entry.success

\* Lines 613-620.
technical_scores(technical) ==
    IF ~Succeeded(technical) THEN <<>>
    ELSE IF technical.overall_signal = "bullish"
    THEN <<TECHNICAL_SIGNAL_WEIGHT>>
    ELSE IF technical.overall_signal = "bearish"
    THEN <<RNeg(TECHNICAL_SIGNAL_WEIGHT)>>
    ELSE <<>>

\* Lines 622-632: sentiment * weight, a TypeError when the sentiment is not a
\* number.
sentiment_scores(entry, weight) ==
    IF ~Succeeded(entry) THEN Return(<<>>)
    ELSE IF ~entry.overall_sentiment.some
    THEN Raise(Exception("TypeError",
                         "unsupported operand type(s) for *: 'NoneType' and 'float'"))
    ELSE Return(<<RMul(entry.overall_sentiment.v, weight)>>)

RECURSIVE sum(_)
sum(scores) ==
    IF scores = <<>> THEN Zero ELSE RAdd(Head(scores), sum(Tail(scores)))

NoTrade(reason) == [should_trade |-> FALSE, reason |-> reason]

\* Lines 603-604 and 655-656.
ErrorDecision(e) ==
    [should_trade |-> FALSE, error |-> handle_error(e).error.message]

rule_confidence_uncapped(overall_score) ==
    RAdd(RAbs(overall_score), CONFIDENCE_BOOST)

rule_confidence_capped_at_one(overall_score) ==
    RMin(One, RAdd(RAbs(overall_score), CONFIDENCE_BOOST))

\* Line 638.
rule_confidence(overall_score) ==
    RMin(MAX_RULE_CONFIDENCE, RAdd(RAbs(overall_score), CONFIDENCE_BOOST))

\* Lines 634-652: the decision from a non-empty list of scores.
score_decision(scores, min_confidence) ==
    LET overall_score == RDiv(sum(scores), Rat(Len(scores), 1))
        confidence == rule_confidence(overall_score)
        trade(action) ==
            [should_trade |-> TRUE, action |-> action,
             confidence |-> confidence, reasoning |-> "Rule-based decision"]
    IN  IF RLt(RULE_BASED_BUY_THRESHOLD, overall_score)
           /\ RLe(min_confidence, confidence)
        THEN trade("buy")
        ELSE IF RLt(overall_score, RULE_BASED_SELL_THRESHOLD)
                /\ RLe(min_confidence, confidence)
        THEN trade("sell")
        ELSE NoTrade("No clear signal")

\* Lines 610-652: the body of the try block.
rule_based_scores(analysis) ==
    LET news == sentiment_scores(analysis.news, NEWS_SENTIMENT_WEIGHT)
        social == sentiment_scores(analysis.social, SOCIAL_SENTIMENT_WEIGHT)
    IN  IF news.raised THEN news
        ELSE IF social.raised THEN social
        ELSE Return(technical_scores(analysis.technical) \o news.value
                    \o social.value)

rule_based_decision_unchecked(analysis, min_confidence) ==
    LET scores == rule_based_scores(analysis)
    IN  IF scores.raised THEN ErrorDecision(scores.exc)
        ELSE IF scores.value = <<>> THEN NoTrade("No clear signal")
        ELSE score_decision(scores.value, min_confidence)

\* Lines 606-656.
rule_based_decision(analysis, min_confidence) ==
    LET scores == rule_based_scores(analysis)
    IN  IF scores.raised THEN ErrorDecision(scores.exc)
        ELSE IF scores.value = <<>> THEN NoTrade("No valid analysis data")
        ELSE score_decision(scores.value, min_confidence)

\* The state of one run of make_trading_decision: what it returned or raised,
\* and the calls it made, in order.
Run(outcome, calls) == [outcome |-> outcome, calls |-> calls]

\* Lines 570-581: the arguments of the position-size call.
position_size_request(analysis, risk_per_trade) ==
    [account_balance |-> simulated_balance,
     risk_per_trade |-> risk_per_trade,
     entry_price |-> analysis.market.price,
     stop_loss_price |-> RMul(analysis.market.price,
                              RSub(One, default_stop_loss_percent))]

\* The risk server's answer to that request: the response of its
\* calculate_position_size tool, with the tool's default method.
risk_server_answer(request) ==
    Return(calculate_position_size_tool(
               request.account_balance, request.risk_per_trade,
               request.entry_price, request.stop_loss_price, "fixed_percent"))

\* The trade is built whether or not the sizer succeeded.
sized_decision_ignoring_failure(analysis, connections, risk_per_trade, signal, reasoning, risk_answer) ==
    LET request == position_size_request(analysis, risk_per_trade)
        position_result ==
            call_tool(connections, "risk", "calculate_position_size",
                      risk_answer)
    IN  IF position_result.raised THEN position_result
        ELSE Return([should_trade |-> TRUE,
                     action |-> signal.action,
                     confidence |-> signal.confidence,
                     entry_price |-> request.entry_price,
                     quantity |-> Rat(1, 100),
                     stop_loss |-> request.stop_loss_price,
                     take_profit |-> signal.target_price,
                     reasoning |-> reasoning,
                     risk_amount |-> Zero])

\* Lines 569-594: the position-size call and the trade built from it.
sized_decision(analysis, connections, risk_per_trade, signal, reasoning, risk_answer) ==
    LET request == position_size_request(analysis, risk_per_trade)
        position_result ==
            call_tool(connections, "risk", "calculate_position_size",
                      risk_answer)
    IN  IF position_result.raised THEN position_result
        ELSE IF position_result.value.success
        THEN Return([should_trade |-> TRUE,
                     action |-> signal.action,
                     confidence |-> signal.confidence,
                     entry_price |-> request.entry_price,
                     quantity |-> position_result.value.position_size.quantity,
                     stop_loss |-> request.stop_loss_price,
                     take_profit |-> signal.target_price,
                     reasoning |-> reasoning,
                     risk_amount |->
                         position_result.value.position_size.risk_amount])
        ELSE Return(NoTrade("Confidence below threshold"))

gate_ignores_action(signal, min_confidence) ==
    RLe(min_confidence, signal.confidence)

\* Line 568: the minimum confidence threshold.
gate_passes(signal, min_confidence) ==
    RLe(min_confidence, signal.confidence) /\ signal.action \in {"buy", "sell"}

fallback_no_trade(analysis, min_confidence) ==
    Run(Return(NoTrade("AI not available")), <<>>)

\* Line 600: the rule-based decision stands in for the AI.
fallback_run(analysis, min_confidence) ==
    Run(Return(rule_based_decision(analysis, min_confidence)),
        <<"_rule_based_decision">>)

\* Lines 553-600: the body of the try block.
trading_decision_try(analysis, connections, min_confidence, risk_per_trade, ai_answer, risk_answer) ==
    LET fallback == fallback_run(analysis, min_confidence)
        ai_result == call_tool(connections, "ai", "generate_trading_signal",
                               ai_answer)
    IN  IF "ai" \notin connections THEN fallback
        ELSE IF ai_result.raised
        THEN Run(ai_result, <<"ai">>)
        ELSE IF ~ai_result.value.success
        THEN Run(fallback.outcome, <<"ai">> \o fallback.calls)
        ELSE LET signal == ai_result.value.signal
             IN  IF gate_passes(signal, min_confidence)
                 THEN Run(sized_decision(analysis, connections, risk_per_trade,
                                         signal,
                                         ai_result.value.analysis.reasoning,
                                         risk_answer),
                          <<"ai", "risk">>)
                 ELSE Run(Return(NoTrade("Confidence below threshold")),
                          <<"ai">>)

make_trading_decision_propagating(analysis, connections, min_confidence, risk_per_trade, ai_answer, risk_answer) ==
    trading_decision_try(analysis, connections, min_confidence,
                         risk_per_trade, ai_answer, risk_answer)

\* Lines 549-604: any exception of the body becomes a decision not to trade.
make_trading_decision(analysis, connections, min_confidence, risk_per_trade, ai_answer, risk_answer) ==
    LET run == trading_decision_try(analysis, connections, min_confidence,
                                    risk_per_trade, ai_answer, risk_answer)
    IN  IF run.outcome.raised
        THEN Run(Return(ErrorDecision(run.outcome.exc)), run.calls)
        ELSE run

-----------------------------------------------------------------------------
(* The client's cycle around the decision: perform_market_analysis and     *)
(* execute_trade (client/crypto_trader.py).                                *)

\* BaseTradingError.__str__, and str() of any other exception.
str(e) == IF e.trading THEN "[" \o e.code \o "] " \o e.message ELSE e.message

\* The keys of the analysis and the server each one is asked from.
SourceKeys == {"news", "technical", "social", "market"}

source_server(key) == IF key = "market" THEN "binance" ELSE key

source_tool(key) ==
    CASE key = "news" -> "analyze_news_sentiment"
      [] key = "technical" -> "calculate_indicators"
      [] key = "social" -> "analyze_social_sentiment"
      [] key = "market" -> "get_market_data"

\* Lines 486-517: one task per connected source.
analysis_tasks(connections) ==
    {key \in SourceKeys : source_server(key) \in connections}

\* A source that raised leaves no entry.
recorded_unless_raised(result) ==
    IF result.raised THEN Missing ELSE result.value

\* Lines 523-528: what is recorded for a task that returned or raised.
recorded(result) ==
    IF result.raised THEN FailedWith(str(result.exc)) ELSE result.value

\* Every source that has an entry counts.
sources_recorded(analysis_data) ==
    Cardinality({key \in DOMAIN analysis_data : HasEntry(analysis_data[key])})

\* Line 538: the sources whose entry has a truthy success.
sources_available(analysis_data) ==
    Cardinality({key \in DOMAIN analysis_data : Succeeded(analysis_data[key])})

\* Lines 484-544, given what each task of gather(return_exceptions=True)
\* returned or raised.
perform_market_analysis(connections, results) ==
    LET analysis_data ==
            [key \in SourceKeys |->
                IF key \in analysis_tasks(connections)
                THEN recorded(results[key]) ELSE Missing]
    IN  [data |-> analysis_data, success |-> TRUE,
         sources_available |-> sources_available(analysis_data)]

\* dict.get(key, default)
get(dict, key, default) == IF key \in DOMAIN dict THEN dict[key] ELSE default

\* str.upper of an action.
upper(action) ==
    CASE action = "buy" -> "BUY"
      [] action = "sell" -> "SELL"
      [] action = "hold" -> "HOLD"

\* Lines 668-677 and 697-707: a record of trade_history. A live record has
\* no paper_trade key and a paper record no order_id; price is None where the
\* decision or the order has none.
TradeRecord(trade, price, paper_trade, order_id) ==
    [action |-> trade.action,
     quantity |-> get(trade, "quantity", Rat(1, 100)),
     price |-> price,
     confidence |-> trade.confidence,
     reasoning |-> trade.reasoning,
     paper_trade |-> paper_trade,
     order_id |-> order_id]

decision_price(trade) ==
    IF "entry_price" \in DOMAIN trade THEN Some(trade.entry_price)
    ELSE None

\* Lines 687-692: the order sent to the exchange.
OrderRequest(trade) ==
    [side |-> upper(trade.action), type |-> "MARKET",
     quantity |-> get(trade, "quantity", Rat(1, 100))]

\* What execute_trade returns; paper_trade is FALSE where the key is absent.
ExecutionResult(success, paper_trade, error) ==
    [success |-> success, paper_trade |-> paper_trade, error |-> error]

\* Lines 685-714: the order is placed whatever paper_trading says.
live_trade(trade, paper, connections, order_answer) ==
    LET order_result == call_tool(connections, "binance", "place_order",
                                  order_answer)
        sent == IF "binance" \in connections THEN <<OrderRequest(trade)>>
                ELSE <<>>
    IN  IF order_result.raised
        THEN [result |-> ExecutionResult(
                             FALSE, FALSE,
                             handle_error(order_result.exc).error.message),
              records |-> <<>>, orders |-> sent]
        ELSE IF order_result.value.success
        THEN [result |-> ExecutionResult(TRUE, FALSE, ""),
              records |-> <<TradeRecord(trade, order_result.value.price,
                                        FALSE, order_result.value.order_id)>>,
              orders |-> sent]
        ELSE [result |-> ExecutionResult(FALSE, FALSE,
                                         order_result.value.error),
              records |-> <<>>, orders |-> sent]

\* The order goes to the exchange in paper trading too.
execute_trade_placing_order(trade, paper, connections, order_answer) ==
    live_trade(trade, paper, connections, order_answer)

\* Lines 658-719: the result, the records appended to trade_history and the
\* orders sent to the exchange.
execute_trade(trade, paper, connections, order_answer) ==
    IF paper
    THEN [result |-> ExecutionResult(TRUE, TRUE, ""),
          records |-> <<TradeRecord(trade, decision_price(trade),
                                    TRUE, "")>>,
          orders |-> <<>>]
    ELSE live_trade(trade, paper, connections, order_answer)

-----------------------------------------------------------------------------
(* The arguments the tools are called with.                                *)

MaxPriceSteps == 4

KellySteps == 4

Balances == {Rat(-100, 1), Zero, Rat(1000, 1), Rat(10000, 1)}

Risks == {Zero, Rat(1, 1000), Rat(2, 100), Rat(5, 10), Rat(501, 1000)}

Prices == {Rat(12500 * k, 1) : k \in 0..MaxPriceSteps}

Methods == ValidMethods \cup {"martingale"}

\* Scenario A of the specification, and the same with a balance that has a
\* fraction of a cent in its cap.
ScenarioInputs ==
    {[account_balance |-> ab, risk_per_trade |-> Rat(2, 100),
      entry_price |-> Rat(50000, 1), stop_loss_price |-> sl, method |-> m] :
        ab \in {Rat(10000, 1), Rat(1000003, 100)},
        sl \in {Rat(48000, 1), Rat(50000, 1)}, m \in ValidMethods}

GridInputs ==
    [account_balance : Balances, risk_per_trade : Risks, entry_price : Prices,
     stop_loss_price : Prices, method : Methods]

SizerInputs == GridInputs \cup ScenarioInputs

KellyInputs ==
    [win_rate : {Rat(k, KellySteps) : k \in 0..KellySteps}
                    \cup {Rat(1, 100), Rat(60, 100), Rat(99, 100)},
     avg_win : {Zero, One, Rat(100, 1), Rat(200, 1), Rat(10000, 1)},
     avg_loss : {Zero, One, Rat(100, 1), Rat(10000, 1)},
     max_kelly : {Rat(-1, 10), Zero, Rat(25, 100), One}]

\* The configurations, analyses and collaborator answers of the trader.
SentimentSteps == 1

ConfidenceSteps == 2

MinConfidences == {Rat(5, 10), DEFAULT_MIN_CONFIDENCE, Rat(9, 10)}

Modes == {"low", "medium", "high"}

NewsSentiments ==
    {Some(Rat(k, SentimentSteps)) : k \in -SentimentSteps..SentimentSteps}
        \cup {Some(Rat(5, 10)), None}

SocialSentiments == {Some(Rat(-1, 1)), Some(Rat(4, 10))}

Analyses ==
    [technical : {Missing, Failed}
                     \cup {Technical(s) : s \in {"bullish", "bearish", "neutral"}},
     news : {Missing, Failed} \cup {Sentiment(s) : s \in NewsSentiments},
     social : {Missing, Failed} \cup {Sentiment(s) : s \in SocialSentiments},
     market : {Missing, Failed, Market(Rat(50000, 1)), Market(Rat(1, 100))}]

\* Lines 408-436: the confidence is safe_float of what the language model
\* wrote, any float.
UnclampedConfidences == {Rat(-1, 2), Rat(3, 2)}

\* What synthesize_analysis can come back with.
Syntheses ==
    {Raise(Exception("ConnectionError", "Cannot connect to Ollama")),
     Return([success |-> FALSE, confidence |-> Zero,
             prediction |-> [recommendation |-> "hold", target_price |-> None,
                             stop_loss |-> None, reasoning |-> ""]])}
        \cup {Return([success |-> TRUE, confidence |-> c,
                      prediction |-> [recommendation |-> r,
                                      target_price |-> Some(Rat(55000, 1)),
                                      stop_loss |-> Some(Rat(47000, 1)),
                                      reasoning |-> "AI synthesis"]]) :
                  c \in {Rat(k, ConfidenceSteps) : k \in 0..ConfidenceSteps},
                  r \in {"buy", "sell", "hold"}}
        \cup {Return([success |-> TRUE, confidence |-> c,
                      prediction |-> [recommendation |-> "buy",
                                      target_price |-> Some(Rat(55000, 1)),
                                      stop_loss |-> Some(Rat(47000, 1)),
                                      reasoning |-> "AI synthesis"]]) :
                  c \in UnclampedConfidences}

\* What the call of the AI server can do: the transport fails, or the server
\* answers with generate_trading_signal's response.
AIAnswers(conns, risk_tolerance) ==
    IF "ai" \notin conns THEN {NoCall}
    ELSE {Raise(Exception("TimeoutError", "AI server timed out"))}
             \cup {Return(generate_trading_signal(s, risk_tolerance)) :
                       s \in Syntheses}

-----------------------------------------------------------------------------
(* SimpleCache (shared/utils.py): an in-memory cache with a time to live.  *)
(* Time is counted in whole seconds.                                       *)

CacheKeys == {"k1", "k2"}

CacheValues == {"a", "b"}

\* What get() returns: None, or the cached value.
NoValue == [none |-> TRUE, value |-> ""]

Value(v) == [none |-> FALSE, value |-> v]

\* A key that is not in the dict, and an item of the dict.
NoItem == [present |-> FALSE, value |-> "", expires_at |-> 0]

CachedItem(value, expires_at) ==
    [present |-> TRUE, value |-> value, expires_at |-> expires_at]

\* SimpleCache.__init__
EmptyCache == [key \in CacheKeys |-> NoItem]

\* SimpleCache.set at the time now.
SimpleCache_set(items, key, value, ttl_seconds, now) ==
    [items EXCEPT ![key] = CachedItem(value, now + ttl_seconds)]

\* An item that expires as soon as its deadline is reached.
expired_at_deadline(now, expires_at) == now >= expires_at

\* The test of get(): the deadline itself is still within the time to live.
expired(now, expires_at) == now > expires_at

\* SimpleCache.get at the time now: the dict afterwards and the value
\* returned.
SimpleCache_get(items, key, now) ==
    IF ~items[key].present
    THEN [items |-> items, result |-> NoValue]
    ELSE IF expired(now, items[key].expires_at)
         THEN [items |-> [items EXCEPT ![key] = NoItem], result |-> NoValue]
         ELSE [items |-> items, result |-> Value(items[key].value)]

\* SimpleCache.delete
SimpleCache_delete(items, key) == [items EXCEPT ![key] = NoItem]

\* SimpleCache.clear
SimpleCache_clear(items) == [key \in DOMAIN items |-> NoItem]

\* SimpleCache.size
SimpleCache_size(items) == Cardinality({key \in DOMAIN items : items[key].present})

\* No set() is on record for a key.
NeverSet == [made |-> FALSE, value |-> "", at |-> 0, ttl_seconds |-> 0]

NoCacheCall == [op |-> "none", key |-> "", result |-> NoValue, size |-> 0]

CacheInit ==
    /\ cache = EmptyCache
    /\ clock = 0
    /\ cache_call = NoCacheCall
    /\ last_set = [key \in CacheKeys |-> NeverSet]

\* A trader that has been constructed and not started (lines 373-386).
NoTask == [state |-> "none", result |-> NoCall]

NoAnalysis == [called |-> FALSE, success |-> FALSE, sources_available |-> 0]

NotStarted ==
    /\ trade_history = <<>>
    /\ loop_pc = "created"
    /\ tasks = [key \in SourceKeys |-> NoTask]
    /\ analysis_out = NoAnalysis
    /\ execution = NoCall
    /\ orders = <<>>
    /\ caught = <<>>
    /\ disconnects = 0
    /\ cycles = 0

-----------------------------------------------------------------------------
(* The state machine.                                                      *)

\* No request is being served and no trading cycle has begun.
Idle ==
    /\ ps_in = NoCall
    /\ ps_out = NoCall
    /\ kelly_in = NoCall
    /\ kelly_out = NoCall
    /\ max_drawdown_call = NoCall
    /\ correlation_call = NoCall
    /\ risk_alerts_call = NoCall
    /\ alerts_tool_call = NoCall
    /\ cycle_analysis = EmptyAnalysis
    /\ ai_out = NoCall
    /\ risk_out = NoCall
    /\ decision = NoCall
    /\ cycle_calls = <<>>
    /\ pc = "idle"
    /\ CacheInit
    /\ NotStarted

\* The risk server on its own, next to a trader with the default
\* configuration that is not running.
Init ==
    /\ Idle
    /\ mcp_connections = {}
    /\ trader_min_confidence = DEFAULT_MIN_CONFIDENCE
    /\ mode = "medium"
    /\ emergency_stop = FALSE
    /\ paper_trading = TRUE

\* One call of the calculate_position_size tool.
CalculatePositionSize ==
    \E in \in SizerInputs :
        /\ ~ps_in.called /\ ~kelly_in.called
        /\ ps_in' = [called |-> TRUE, args |-> in]
        /\ ps_out' =
             [called |-> TRUE,
              result |-> calculate_position_size(
                             in.account_balance, in.risk_per_trade,
                             in.entry_price, in.stop_loss_price, in.method),
              response |-> calculate_position_size_tool(
                             in.account_balance, in.risk_per_trade,
                             in.entry_price, in.stop_loss_price, in.method)]
        /\ UNCHANGED <<kelly_in, kelly_out, portfolio_vars, trader_vars,
                     runtime_vars>>

\* One call of the optimize_kelly_criterion tool.
OptimizeKelly ==
    \E in \in KellyInputs :
        \E ovf \in KellyPowOutcomes(in.win_rate, in.avg_win, in.avg_loss) :
            /\ ~ps_in.called /\ ~kelly_in.called
            /\ kelly_in' = [called |-> TRUE, args |-> in]
            /\ kelly_out' =
                 [called |-> TRUE,
                  response |-> optimize_kelly_criterion(
                                   in.win_rate, in.avg_win, in.avg_loss,
                                   in.max_kelly, ovf)]
            /\ UNCHANGED <<ps_in, ps_out, portfolio_vars, trader_vars,
                     runtime_vars>>

\* The response has been sent; the server takes the next request. The tools
\* keep no state between requests.
SendPositionSize ==
    /\ ps_in.called
    /\ ps_in' = NoCall
    /\ ps_out' = NoCall
    /\ UNCHANGED <<kelly_in, kelly_out, portfolio_vars, trader_vars,
                     runtime_vars>>

SendKelly ==
    /\ kelly_in.called
    /\ kelly_in' = NoCall
    /\ kelly_out' = NoCall
    /\ UNCHANGED <<ps_in, ps_out, portfolio_vars, trader_vars,
                     runtime_vars>>

\* The risk server: its tool bodies do not await, so requests are served one
\* at a time.
RiskNext ==
    \/ CalculatePositionSize
    \/ SendPositionSize
    \/ OptimizeKelly
    \/ SendKelly

RiskSpec == Init /\ [][RiskNext]_vars

\* The trader: load_config and connect_all_servers have run. The mode is
\* read only when the AI is asked (line 559).
TraderInit ==
    /\ Idle
    /\ mcp_connections \in SUBSET {"ai", "risk"}
    /\ trader_min_confidence \in MinConfidences
    /\ mode \in IF "ai" \in mcp_connections THEN Modes ELSE {"medium"}
    /\ emergency_stop = FALSE
    /\ paper_trading = TRUE

\* Line 434 of start_trading: the analysis of this cycle.
AnalyseMarket ==
    /\ pc = "idle"
    /\ cycle_analysis' \in Analyses
    /\ pc' = "analysed"
    /\ UNCHANGED <<risk_vars, runtime_vars, mcp_connections, trader_min_confidence, mode,
                   ai_out, risk_out, decision, cycle_calls>>

\* Line 438 of start_trading: one run of make_trading_decision, against
\* what the collaborators answer in this cycle.
MakeTradingDecision ==
    /\ pc = "analysed"
    /\ \E ai_answer \in AIAnswers(mcp_connections, mode),
          request \in {position_size_request(cycle_analysis,
                                             DEFAULT_RISK_PER_TRADE)} :
           \E risk_answer \in {risk_server_answer(request)} :
               \E run \in {make_trading_decision(
                               cycle_analysis, mcp_connections,
                               trader_min_confidence, DEFAULT_RISK_PER_TRADE,
                               ai_answer, risk_answer)} :
                   /\ decision' = run.outcome
                   /\ cycle_calls' = run.calls
                   /\ ai_out' = IF "ai" \in mcp_connections
                                THEN [called |-> TRUE, result |-> ai_answer]
                                ELSE NoCall
                   /\ risk_out' = IF run.calls = <<"ai", "risk">>
                                     /\ "risk" \in mcp_connections
                                  THEN [called |-> TRUE, args |-> request,
                                        result |-> risk_answer]
                                  ELSE NoCall
    /\ pc' = "decided"
    /\ UNCHANGED <<risk_vars, runtime_vars, mcp_connections, trader_min_confidence, mode,
                   cycle_analysis>>

\* Lines 446-453: the cycle ends and the loop sleeps until the next one.
NextCycle ==
    /\ pc = "decided"
    /\ cycle_analysis' = EmptyAnalysis
    /\ ai_out' = NoCall
    /\ risk_out' = NoCall
    /\ decision' = NoCall
    /\ cycle_calls' = <<>>
    /\ pc' = "idle"
    /\ UNCHANGED <<risk_vars, runtime_vars, mcp_connections, trader_min_confidence, mode>>

TraderNext ==
    \/ AnalyseMarket
    \/ MakeTradingDecision
    \/ NextCycle

TraderSpec == TraderInit /\ [][TraderNext]_vars

-----------------------------------------------------------------------------
(* The portfolio metrics of the risk server, called one at a time.         *)

MaxHistory == 3

PnLEntries == {Rat(-30, 1), Rat(-5, 1), Zero, Rat(10, 1), Rat(20, 1)}

RECURSIVE SeqsUpTo(_, _)
SeqsUpTo(elements, n) ==
    IF n = 0 THEN {<<>>}
    ELSE LET shorter == SeqsUpTo(elements, n - 1)
         IN  shorter \cup {Append(h, e) : h \in shorter, e \in elements}

PnLHistories == SeqsUpTo(PnLEntries, MaxHistory)

MaxPositions == 3

Symbols ==
    {BTC \o USDT, ETH \o USDT, <<"A", "D", "A">> \o USDT,
     <<"W">> \o BTC, ETH \o <<"U", "S", "D">>,
     <<"S", "O", "L", "U", "S", "D">>, <<"b", "t", "c">> \o USDT}

Portfolios == SeqsUpTo(Symbols, MaxPositions)

\* shared_types.RiskMetrics; portfolio_beta is always None (line 540).
MetricsInputs ==
    [var_1d : {Zero, Rat(2000, 1), Rat(200001, 100)},
     max_drawdown : {Zero, Rat(15, 100), Rat(16, 100), Rat(3, 1)},
     sharpe_ratio : {None, Some(Rat(-1, 1)), Some(Rat(49, 100)),
                     Some(Rat(5, 10))},
     correlation_risk : {"low", "medium", "high"}]

\* The default parameters, and a configuration with other limits.
ParameterInputs ==
    {RiskParameters,
     [RiskParameters EXCEPT !.max_portfolio_risk = Rat(1, 100),
                            !.max_drawdown = Rat(2, 10)]}

MaxVarBreaches == 3

AlertToolInputs ==
    [current_drawdown : {Zero, Rat(5, 100), Rat(6, 100), Rat(9, 100),
                         Rat(11, 100), Rat(16, 100)},
     daily_pnl : {Zero, Rat(-1000, 1), Rat(-100001, 100), Rat(-6000, 1)},
     var_breaches : 0..MaxVarBreaches,
     correlation_level : {"low", "medium", "high"}]

PortfolioIdle ==
    /\ ~max_drawdown_call.called
    /\ ~correlation_call.called
    /\ ~risk_alerts_call.called
    /\ ~alerts_tool_call.called

\* One call of RiskCalculator.calculate_max_drawdown.
CalculateMaxDrawdown ==
    \E pnl_history \in PnLHistories :
        /\ PortfolioIdle
        /\ max_drawdown_call' =
             [called |-> TRUE, pnl_history |-> pnl_history,
              result |-> calculate_max_drawdown(pnl_history)]
        /\ UNCHANGED <<correlation_call, risk_alerts_call, alerts_tool_call,
                       ps_in, ps_out, kelly_in, kelly_out, trader_vars,
                   runtime_vars>>

\* One call of RiskCalculator.assess_correlation_risk.
AssessCorrelationRisk ==
    \E symbols \in Portfolios :
        /\ PortfolioIdle
        /\ correlation_call' =
             [called |-> TRUE, symbols |-> symbols,
              result |-> assess_correlation_risk(symbols)]
        /\ UNCHANGED <<max_drawdown_call, risk_alerts_call, alerts_tool_call,
                       ps_in, ps_out, kelly_in, kelly_out, trader_vars,
                   runtime_vars>>

\* One call of RiskCalculator.generate_risk_alerts.
GenerateRiskAlerts ==
    \E portfolio_metrics \in MetricsInputs, risk_params \in ParameterInputs :
        /\ PortfolioIdle
        /\ risk_alerts_call' =
             [called |-> TRUE, portfolio_metrics |-> portfolio_metrics,
              risk_params |-> risk_params,
              result |-> generate_risk_alerts(portfolio_metrics, risk_params)]
        /\ UNCHANGED <<max_drawdown_call, correlation_call, alerts_tool_call,
                       ps_in, ps_out, kelly_in, kelly_out, trader_vars,
                   runtime_vars>>

\* One call of the generate_risk_alerts tool.
GenerateRiskAlertsTool ==
    \E in \in AlertToolInputs :
        /\ PortfolioIdle
        /\ alerts_tool_call' =
             [called |-> TRUE, args |-> in,
              response |-> generate_risk_alerts_tool(
                               in.current_drawdown, in.daily_pnl,
                               in.var_breaches, in.correlation_level)]
        /\ UNCHANGED <<max_drawdown_call, correlation_call, risk_alerts_call,
                       ps_in, ps_out, kelly_in, kelly_out, trader_vars,
                   runtime_vars>>

\* The call has returned; the calculator keeps no state between calls.
ReturnFromCall ==
    /\ ~PortfolioIdle
    /\ max_drawdown_call' = NoCall
    /\ correlation_call' = NoCall
    /\ risk_alerts_call' = NoCall
    /\ alerts_tool_call' = NoCall
    /\ UNCHANGED <<ps_in, ps_out, kelly_in, kelly_out, trader_vars,
                   runtime_vars>>

PortfolioNext ==
    \/ CalculateMaxDrawdown
    \/ AssessCorrelationRisk
    \/ GenerateRiskAlerts
    \/ GenerateRiskAlertsTool
    \/ ReturnFromCall

PortfolioSpec == Init /\ [][PortfolioNext]_vars

-----------------------------------------------------------------------------
(* The cache in use: callers set, get and delete keys while time passes.   *)

MaxTime == 3

MaxTtl == 2

\* A time to live may be zero or negative: the item is then born expired or
\* expires within the second.
TtlValues == -1 .. MaxTtl

CacheSet ==
    \E key \in CacheKeys, value \in CacheValues, ttl_seconds \in TtlValues :
        /\ cache' = SimpleCache_set(cache, key, value, ttl_seconds, clock)
        /\ cache_call' = [NoCacheCall EXCEPT !.op = "set", !.key = key]
        /\ last_set' =
             [last_set EXCEPT ![key] =
                 [made |-> TRUE, value |-> value, at |-> clock,
                  ttl_seconds |-> ttl_seconds]]
        /\ UNCHANGED <<clock, risk_vars, trader_vars, loop_vars>>

CacheGet ==
    \E key \in CacheKeys :
        /\ cache' = SimpleCache_get(cache, key, clock).items
        /\ cache_call' =
             [NoCacheCall EXCEPT !.op = "get", !.key = key,
                                 !.result = SimpleCache_get(cache, key, clock).result]
        /\ UNCHANGED <<clock, last_set, risk_vars, trader_vars, loop_vars>>

CacheDelete ==
    \E key \in CacheKeys :
        /\ cache' = SimpleCache_delete(cache, key)
        /\ cache_call' = [NoCacheCall EXCEPT !.op = "delete", !.key = key]
        /\ last_set' = [last_set EXCEPT ![key] = NeverSet]
        /\ UNCHANGED <<clock, risk_vars, trader_vars, loop_vars>>

CacheClear ==
    /\ cache' = SimpleCache_clear(cache)
    /\ cache_call' = [NoCacheCall EXCEPT !.op = "clear"]
    /\ last_set' = [key \in CacheKeys |-> NeverSet]
    /\ UNCHANGED <<clock, risk_vars, trader_vars, loop_vars>>

CacheSize ==
    /\ cache_call' =
         [NoCacheCall EXCEPT !.op = "size", !.size = SimpleCache_size(cache)]
    /\ UNCHANGED <<cache, clock, last_set, risk_vars, trader_vars,
                   loop_vars>>

\* A second passes.
Tick ==
    /\ clock < MaxTime
    /\ clock' = clock + 1
    /\ cache_call' = NoCacheCall
    /\ UNCHANGED <<cache, last_set, risk_vars, trader_vars, loop_vars>>

CacheNext ==
    \/ CacheSet
    \/ CacheGet
    \/ CacheDelete
    \/ CacheClear
    \/ CacheSize
    \/ Tick

CacheSpec == Init /\ [][CacheNext]_vars

-----------------------------------------------------------------------------
(* start_trading: the trading loop of the client.                          *)

MaxCycles == 2

Servers == {"news", "technical", "social", "binance", "risk", "ai"}

\* The servers connect_all_servers ends up connected to: those that are
\* enabled and whose connection did not fail.
ConnectionOutcomes ==
    {{}, Servers, {"technical", "binance", "risk", "ai"},
     {"news", "social", "binance"}}

\* What the server behind a source does with the request.
SourceAnswers(key) ==
    CASE key = "news" ->
             {Return(Sentiment(Some(Rat(5, 10)))),
              Raise(Exception("ConnectionError", "news server unreachable"))}
      [] key = "technical" ->
             {Return(Technical("bullish")),
              Raise(Exception("TimeoutError", "technical server timed out"))}
      [] key = "social" ->
             {Return(Sentiment(Some(Rat(4, 10)))),
              Raise(Exception("ConnectionError", "social server unreachable"))}
      [] key = "market" ->
             {Return(Market(Rat(50000, 1))), Return(Failed),
              Raise(Exception("ClientError", "Cannot connect to host"))}

\* What the exchange does with an order.
PlaceOrderAnswers ==
    {Return([success |-> TRUE, order_id |-> "ORDER_1", status |-> "FILLED",
             price |-> None, error |-> ""]),
     Return([success |-> FALSE, order_id |-> "", status |-> "",
             price |-> None, error |-> "Insufficient balance"]),
     Raise(Exception("TimeoutError", "exchange timed out"))}

\* TradingSystemError(message, severity=...)
TradingSystemErrorOf(severity) ==
    [TradingSystemError("Trading halted") EXCEPT !.severity = severity]

\* What a step of a cycle can raise into the loop.
CycleExceptions ==
    {TradingSystemErrorOf(severity) :
         severity \in {"low", "medium", "high", "critical"}}
        \cup {RiskManagementError("RiskManagementError",
                                  "Risk limit exceeded", {}),
              Exception("ValueError", "unexpected")}

KeyboardInterrupt == Exception("KeyboardInterrupt", "")

\* Only a critical error stops the loop.
stops_trading_when_critical(e) ==
    e.type = "TradingSystemError" /\ e.severity = "critical"

\* Lines 455-462: the errors that set emergency_stop and break.
stops_trading(e) ==
    e.type = "TradingSystemError" /\ e.severity \in {"high", "critical"}

\* The trader before start_trading, as the environment configured it.
LoopInit ==
    /\ Idle
    /\ mcp_connections = {}
    /\ trader_min_confidence = DEFAULT_MIN_CONFIDENCE
    /\ mode = "medium"
    /\ emergency_stop \in BOOLEAN
    /\ paper_trading \in BOOLEAN

NoCycle ==
    /\ cycle_analysis' = EmptyAnalysis
    /\ ai_out' = NoCall
    /\ risk_out' = NoCall
    /\ decision' = NoCall
    /\ cycle_calls' = <<>>
    /\ tasks' = [key \in SourceKeys |-> NoTask]
    /\ analysis_out' = NoAnalysis
    /\ execution' = NoCall
    /\ pc' = "idle"

\* Lines 415-417: the emergency stop is on, start_trading returns.
RefuseToStart ==
    /\ loop_pc = "created"
    /\ emergency_stop
    /\ loop_pc' = "refused"
    /\ UNCHANGED <<risk_vars, trader_vars, cache_vars, emergency_stop,
                   paper_trading, trade_history, tasks, analysis_out,
                   execution, orders, caught, disconnects, cycles>>

\* Lines 423-425: connect_all_servers; with no connection start_trading
\* returns.
ConnectAllServers ==
    /\ loop_pc = "created"
    /\ ~emergency_stop
    /\ \E connected \in ConnectionOutcomes :
           /\ mcp_connections' = connected
           /\ loop_pc' = IF connected = {} THEN "unconnected" ELSE "running"
    /\ UNCHANGED <<risk_vars, cache_vars, trader_min_confidence, mode,
                   cycle_analysis, ai_out, risk_out, decision, cycle_calls,
                   pc, emergency_stop, paper_trading, trade_history, tasks,
                   analysis_out, execution, orders, caught, disconnects,
                   cycles>>

\* Lines 431-434 and 486-517: the loop condition holds and the analysis
\* creates its tasks.
StartAnalysis ==
    /\ loop_pc = "running"
    /\ pc = "idle"
    /\ ~emergency_stop
    /\ cycles < MaxCycles
    /\ cycles' = cycles + 1
    /\ tasks' = [key \in SourceKeys |->
                    IF key \in analysis_tasks(mcp_connections)
                    THEN [state |-> "pending", result |-> NoCall]
                    ELSE NoTask]
    /\ pc' = "gathering"
    /\ UNCHANGED <<risk_vars, cache_vars, mcp_connections,
                   trader_min_confidence, mode, cycle_analysis, ai_out,
                   risk_out, decision, cycle_calls, emergency_stop,
                   paper_trading, trade_history, loop_pc, analysis_out,
                   execution, orders, caught, disconnects>>

\* Line 520: one of the gathered calls returns or raises, in any order.
CompleteTask ==
    /\ pc = "gathering"
    /\ \E key \in SourceKeys :
           /\ tasks[key].state = "pending"
           /\ \E answer \in SourceAnswers(key) :
                  tasks' = [tasks EXCEPT ![key] =
                               [state |-> "done",
                                result |-> call_tool(mcp_connections,
                                                     source_server(key),
                                                     source_tool(key),
                                                     answer)]]
    /\ UNCHANGED <<risk_vars, cache_vars, trader_vars, emergency_stop,
                   paper_trading, trade_history, loop_pc, analysis_out,
                   execution, orders, caught, disconnects, cycles>>

\* Lines 520-544: every task is done and perform_market_analysis returns.
FinishAnalysis ==
    /\ pc = "gathering"
    /\ \A key \in SourceKeys : tasks[key].state # "pending"
    /\ \E out \in {perform_market_analysis(
                       mcp_connections,
                       [key \in SourceKeys |-> tasks[key].result])} :
           /\ cycle_analysis' = out.data
           /\ analysis_out' = [called |-> TRUE, success |-> out.success,
                               sources_available |-> out.sources_available]
    /\ pc' = "analysed"
    /\ UNCHANGED <<risk_vars, cache_vars, mcp_connections,
                   trader_min_confidence, mode, ai_out, risk_out, decision,
                   cycle_calls, emergency_stop, paper_trading, trade_history,
                   loop_pc, tasks, execution, orders, caught, disconnects,
                   cycles>>

\* Lines 440-443: the decision says to trade and execute_trade runs.
ExecuteTrade ==
    /\ loop_pc = "running"
    /\ pc = "decided"
    /\ decision.value.should_trade
    /\ \E order_answer \in PlaceOrderAnswers :
           \E out \in {execute_trade(decision.value, paper_trading,
                                     mcp_connections, order_answer)} :
               /\ execution' = [called |-> TRUE, result |-> out.result]
               /\ trade_history' = trade_history \o out.records
               /\ orders' = orders \o out.orders
    /\ pc' = "executed"
    /\ UNCHANGED <<risk_vars, cache_vars, mcp_connections,
                   trader_min_confidence, mode, cycle_analysis, ai_out,
                   risk_out, decision, cycle_calls, emergency_stop,
                   paper_trading, loop_pc, tasks, analysis_out, caught,
                   disconnects, cycles>>

\* Line 440: the decision says not to trade.
SkipTrade ==
    /\ loop_pc = "running"
    /\ pc = "decided"
    /\ ~decision.value.should_trade
    /\ pc' = "executed"
    /\ UNCHANGED <<risk_vars, cache_vars, mcp_connections,
                   trader_min_confidence, mode, cycle_analysis, ai_out,
                   risk_out, decision, cycle_calls, loop_vars>>

\* Lines 448-453: monitor_positions, which keeps its errors to itself, and
\* the sleep until the next cycle.
MonitorAndSleep ==
    /\ loop_pc = "running"
    /\ pc = "executed"
    /\ NoCycle
    /\ UNCHANGED <<risk_vars, cache_vars, mcp_connections,
                   trader_min_confidence, mode, emergency_stop,
                   paper_trading, trade_history, loop_pc, orders, caught,
                   disconnects, cycles>>

\* Lines 455-468 and 473-475: a step of the cycle raises into the loop. A
\* TradingSystemError that stops trading sets emergency_stop and breaks, and
\* the finally clause disconnects; after any other Exception the loop sleeps
\* and goes on.
CatchCycleError ==
    /\ loop_pc = "running"
    /\ pc \in {"analysed", "decided", "executed"}
    /\ \E e \in CycleExceptions :
           /\ caught' = Append(caught, e)
           /\ IF stops_trading(e)
              THEN /\ emergency_stop' = TRUE
                   /\ mcp_connections' = {}
                   /\ disconnects' = disconnects + 1
                   /\ loop_pc' = "shutdown"
              ELSE /\ UNCHANGED <<emergency_stop, mcp_connections,
                                  disconnects, loop_pc>>
    /\ NoCycle
    /\ UNCHANGED <<risk_vars, cache_vars, trader_min_confidence, mode,
                   paper_trading, trade_history, orders, cycles>>

\* Lines 470-475: the user interrupts the loop; the finally clause
\* disconnects.
Interrupt ==
    /\ loop_pc = "running"
    /\ caught' = Append(caught, KeyboardInterrupt)
    /\ mcp_connections' = {}
    /\ disconnects' = disconnects + 1
    /\ loop_pc' = "shutdown"
    /\ NoCycle
    /\ UNCHANGED <<risk_vars, cache_vars, trader_min_confidence, mode,
                   emergency_stop, paper_trading, trade_history, orders,
                   cycles>>

LoopNext ==
    \/ RefuseToStart
    \/ ConnectAllServers
    \/ StartAnalysis
    \/ CompleteTask
    \/ FinishAnalysis
    \/ MakeTradingDecision
    \/ ExecuteTrade
    \/ SkipTrade
    \/ MonitorAndSleep
    \/ CatchCycleError
    \/ Interrupt

LoopSpec == LoopInit /\ [][LoopNext]_vars

-----------------------------------------------------------------------------
(* Position sizing: the cap (C1) and zero price risk (C2).                 *)

\* The arguments pass the validation of lines 100-111.
SizerArgsValid(a) ==
    /\ RLe(Rat(1, 100), a.account_balance)
    /\ RLe(Rat(1, 1000), a.risk_per_trade)
    /\ RLe(a.risk_per_trade, Rat(5, 10))
    /\ RLe(Rat(1, 100), a.entry_price)
    /\ RLe(Rat(1, 100), a.stop_loss_price)
    /\ a.method \in {"fixed_percent", "kelly", "volatility"}

SizerCase == ps_out.called /\ SizerArgsValid(ps_in.args)

PositionCap(a) == RMul(a.account_balance, Rat(20, 100))

\* The notional value of the method's quantity, before the cap.
UncappedNotional(a) ==
    LET price_risk == RAbs(RSub(a.entry_price, a.stop_loss_price))
        risk       == RMul(a.account_balance, a.risk_per_trade)
        amount     == CASE a.method = "fixed_percent" -> risk
                        [] a.method = "kelly" ->
                               RMul(a.account_balance, Rat(25, 100))
                        [] a.method = "volatility" ->
                               RDiv(risk, Rat(8, 10))
    IN  RMul(RDiv(amount, price_risk), a.entry_price)

UncappedConfidence(a) ==
    CASE a.method = "fixed_percent" -> Rat(8, 10)
      [] a.method = "kelly"         -> Rat(9, 10)
      [] a.method = "volatility"    -> Rat(7, 10)

CapReducesConfidence ==
    LET a == ps_in.args
        r == ps_out.result.value
    IN  RLt(PositionCap(a), UncappedNotional(a)) =>
            /\ r.confidence = RMul(UncappedConfidence(a), Rat(8, 10))
            /\ RLt(r.confidence, UncappedConfidence(a))

\* C1 as stated: for every method and every valid input with entry_price #
\* stop_loss_price the returned notional_value is at most account_balance *
\* 0.20, and a capped result has the method's confidence times 0.8, which is
\* strictly less than the method's confidence.
C1_AsStated ==
    (SizerCase /\ ps_in.args.entry_price # ps_in.args.stop_loss_price) =>
        /\ ~ps_out.result.raised
        /\ RLe(ps_out.result.value.notional_value, PositionCap(ps_in.args))
        /\ CapReducesConfidence

\* C1 as amended: the returned notional_value is at most account_balance *
\* 0.20 rounded to 2 decimals, hence at most the cap plus 0.005; a capped
\* result has the method's confidence times 0.8, strictly less than the
\* method's confidence.
C1_NotionalWithinRoundedCap ==
    (SizerCase /\ ps_in.args.entry_price # ps_in.args.stop_loss_price) =>
        /\ ~ps_out.result.raised
        /\ RLe(ps_out.result.value.notional_value,
               Round(PositionCap(ps_in.args), 2))
        /\ RLe(ps_out.result.value.notional_value,
               RAdd(PositionCap(ps_in.args), Rat(5, 1000)))
        /\ CapReducesConfidence

\* A capped result whose rounded notional value lies above the exact cap.
C1_Witness ==
    /\ SizerCase
    /\ ps_in.args.entry_price # ps_in.args.stop_loss_price
    /\ ~ps_out.result.raised
    /\ RLt(PositionCap(ps_in.args), UncappedNotional(ps_in.args))
    /\ RLt(PositionCap(ps_in.args), ps_out.result.value.notional_value)
    /\ ps_out.result.value.confidence = Rat(64, 100)

\* C2: with otherwise valid inputs and entry_price = stop_loss_price the
\* calculator raises a PositionSizingError for every method, returns no
\* PositionSize, and the tool reports success false.
C2_ZeroPriceRiskIsDomainError ==
    (SizerCase /\ ps_in.args.entry_price = ps_in.args.stop_loss_price) =>
        /\ ps_out.result.raised
        /\ ps_out.result.exc.type = "PositionSizingError"
        /\ ps_out.response.success = FALSE

-----------------------------------------------------------------------------
(* Kelly fraction (C3).                                                    *)

KellyArgsValid(a) ==
    /\ RLt(Zero, a.win_rate) /\ RLt(a.win_rate, One)
    /\ RLt(Zero, a.avg_win) /\ RLt(Zero, a.avg_loss)

\* The fraction the kelly sizing method used, read back from the result of
\* an uncapped call: quantity * price_risk / account_balance.
SizerKellyFractionInRange ==
    (SizerCase /\ ps_in.args.method = "kelly" /\ ~ps_out.result.raised) =>
        /\ RLe(Zero, kelly_fraction(RAbs(RSub(ps_in.args.entry_price,
                                               ps_in.args.stop_loss_price))))
        /\ RLe(kelly_fraction(RAbs(RSub(ps_in.args.entry_price,
                                         ps_in.args.stop_loss_price))),
               Rat(25, 100))

\* C3: for all win_rate in (0,1), avg_win > 0, avg_loss > 0, max_kelly >= 0
\* optimize_kelly_criterion returns 0 <= optimal_kelly_fraction <= max_kelly;
\* the kelly sizing method uses a fraction in [0, 0.25]; and for (0.6, 200,
\* 100, 0.25) the raw fraction 0.4 is clamped to 0.25.
C3_KellyFractionClamped ==
    /\ (kelly_out.called /\ KellyArgsValid(kelly_in.args)
           /\ RLe(Zero, kelly_in.args.max_kelly)) =>
            /\ kelly_out.response.success
            /\ RLe(Zero, kelly_out.response.kelly_calculation
                                              .optimal_kelly_fraction)
            /\ RLe(kelly_out.response.kelly_calculation.optimal_kelly_fraction,
                   kelly_in.args.max_kelly)
    /\ (kelly_out.called
           /\ kelly_in.args = [win_rate |-> Rat(60, 100), avg_win |-> Rat(200, 1),
                               avg_loss |-> Rat(100, 1),
                               max_kelly |-> Rat(25, 100)]) =>
            /\ kelly_out.response.success
            /\ kelly_out.response.kelly_calculation.raw_kelly_fraction
                   = Rat(4, 10)
            /\ kelly_out.response.kelly_calculation.optimal_kelly_fraction
                   = Rat(25, 100)
    /\ SizerKellyFractionInRange

-----------------------------------------------------------------------------
(* The decision engine (C4 - C10).                                         *)

Decided == pc = "decided"

\* make_trading_decision evaluated the rule-based fallback in this cycle.
FallbackEvaluated ==
    \E i \in 1..Len(cycle_calls) : cycle_calls[i] = "_rule_based_decision"

AIRaised == ai_out.called /\ ai_out.result.raised

AIAnswered == ai_out.called /\ ~ai_out.result.raised

\* The position-size call was made and raised.
RiskRaised == cycle_calls = <<"ai", "risk">> /\ "risk" \notin mcp_connections

\* The rule-based fallback ran into a sentiment that is not a number.
FallbackRaised ==
    FallbackEvaluated /\ rule_based_scores(cycle_analysis).raised

RefusesWithError(d) ==
    /\ d.should_trade = FALSE
    /\ "error" \in DOMAIN d
    /\ d.error # ""

\* C4: make_trading_decision never propagates an exception; whenever the AI
\* call, the position-size call or the rule-based fallback raises, it
\* returns a decision with should_trade false that carries an error message.
C4_NeverPropagates ==
    Decided =>
        /\ ~decision.raised
        /\ (AIRaised \/ RiskRaised \/ FallbackRaised) =>
               RefusesWithError(decision.value)

\* The AI's signal has passed the gate and the position-size call raises.
C4_Witness ==
    /\ Decided
    /\ AIAnswered
    /\ RiskRaised
    /\ RefusesWithError(decision.value)

\* The AI's signal is below the threshold of its risk tolerance or below the
\* trader's minimum confidence, or it is not a buy or a sell.
AISignalBelowThreshold ==
    LET signal == ai_out.result.value.signal
    IN  \/ RLt(IF mode = "low"
               THEN RMul(signal.original_confidence, Rat(8, 10))
               ELSE IF mode = "high"
               THEN RMul(signal.original_confidence, Rat(12, 10))
               ELSE signal.original_confidence,
               IF mode = "low" THEN Rat(8, 10)
               ELSE IF mode = "high" THEN Rat(5, 10) ELSE Rat(7, 10))
        \/ RLt(signal.confidence, trader_min_confidence)
        \/ signal.action \notin {"buy", "sell"}

\* C5: when the AI is reachable and its call succeeds but its confidence is
\* below the applicable threshold, or its action is neither buy nor sell,
\* the decision is should_trade false and the rule-based fallback is not
\* evaluated, whatever the fallback would have decided.
C5_AIShortCircuits ==
    (Decided /\ AIAnswered /\ ai_out.result.value.success
         /\ AISignalBelowThreshold) =>
        /\ ~decision.raised
        /\ decision.value.should_trade = FALSE
        /\ ~FallbackEvaluated

\* A low-confidence AI signal on an analysis the fallback alone would trade.
C5_Witness ==
    /\ Decided /\ AIAnswered /\ ai_out.result.value.success
    /\ AISignalBelowThreshold
    /\ ai_out.result.value.signal.action = "hold"
    /\ rule_based_decision(cycle_analysis, trader_min_confidence).should_trade
    /\ decision.value.should_trade = FALSE

AllSourcesAbsent ==
    /\ ~cycle_analysis.technical.present
    /\ ~cycle_analysis.news.present
    /\ ~cycle_analysis.social.present
    /\ ~cycle_analysis.market.present
    /\ "ai" \notin mcp_connections

\* C6: when no technical, news, social or market result is present and the
\* AI is not available, the decision is should_trade false with the reason
\* "No valid analysis data".
C6_EmptyAnalysisNoTrade ==
    (Decided /\ AllSourcesAbsent) =>
        /\ ~decision.raised
        /\ decision.value.should_trade = FALSE
        /\ "reason" \in DOMAIN decision.value
        /\ decision.value.reason = "No valid analysis data"

C6_Witness ==
    /\ Decided /\ AllSourcesAbsent
    /\ FallbackEvaluated
    /\ decision.value.should_trade = FALSE

IsFallbackDecision ==
    /\ ~decision.raised
    /\ decision.value
           = rule_based_decision(cycle_analysis, trader_min_confidence)

CodeScores == rule_based_scores(cycle_analysis).value

CodeScore == RDiv(sum(CodeScores), Rat(Len(CodeScores), 1))

\* The fallback was evaluated, nothing raised, and it had a score.
FallbackScored ==
    /\ Decided /\ FallbackEvaluated
    /\ ~rule_based_scores(cycle_analysis).raised
    /\ CodeScores # <<>>

ScenarioD ==
    /\ cycle_analysis.technical = Technical("bullish")
    /\ cycle_analysis.news = Sentiment(Some(Rat(5, 10)))
    /\ cycle_analysis.social = Sentiment(Some(Rat(4, 10)))
    /\ trader_min_confidence = Rat(7, 10)

\* C8: in the rule-based fallback with at least one score, confidence =
\* min(0.8, |score| + 0.3); the decision is buy iff score > 0.3 and
\* confidence >= min_confidence, sell iff score < -0.3 and confidence >=
\* min_confidence, and should_trade false otherwise; for technical bullish,
\* news 0.5, social 0.4 and min_confidence 0.7 the score exceeds 0.3, the
\* confidence is below 0.7 and the decision is should_trade false.
C8_RuleBasedThresholds ==
    FallbackScored =>
        LET d == decision.value
            plain == RAdd(RAbs(CodeScore), Rat(3, 10))
            confidence == IF RLt(Rat(8, 10), plain) THEN Rat(8, 10) ELSE plain
            confident == RLe(trader_min_confidence, confidence)
            buy == RLt(Rat(3, 10), CodeScore) /\ confident
            sell == RLt(CodeScore, Rat(-3, 10)) /\ confident
        IN  /\ ~decision.raised
            /\ d.should_trade = (buy \/ sell)
            /\ d.should_trade =>
                   /\ d.confidence = confidence
                   /\ (d.action = "buy") = buy
                   /\ (d.action = "sell") = sell
            /\ ScenarioD =>
                   /\ CodeScore = Rat(101, 300)
                   /\ RLt(Rat(3, 10), CodeScore)
                   /\ RLt(confidence, Rat(7, 10))
                   /\ d.should_trade = FALSE

\* Scenario D has been decided by the fallback.
C8_Witness ==
    /\ FallbackScored /\ ScenarioD
    /\ decision.value = NoTrade("No clear signal")

\* The terms C9 describes: one per successful source.
ClaimedScores ==
    LET technical == cycle_analysis.technical
        news == cycle_analysis.news
        social == cycle_analysis.social
    IN  (IF technical.present /\ technical.success
         THEN <<CASE technical.overall_signal = "bullish" -> Rat(6, 10)
                  [] technical.overall_signal = "bearish" -> Rat(-6, 10)
                  [] OTHER -> Zero>>
         ELSE <<>>)
        \o (IF news.present /\ news.success
            THEN <<RMul(news.overall_sentiment.v, Rat(5, 10))>> ELSE <<>>)
        \o (IF social.present /\ social.success
            THEN <<RMul(social.overall_sentiment.v, Rat(4, 10))>> ELSE <<>>)

\* C9: the rule-based score is the plain average with exactly one term per
\* successful source (technical +0.6, -0.6 or 0 for bullish, bearish or
\* neutral; news sentiment * 0.5; social sentiment * 0.4) and no term for an
\* absent or failed source; the decision is the one that score gives.
C9_OneTermPerSuccessfulSource ==
    (Decided /\ FallbackEvaluated
         /\ ~rule_based_scores(cycle_analysis).raised) =>
        /\ CodeScores = ClaimedScores
        /\ decision.value
               = IF ClaimedScores = <<>> THEN NoTrade("No valid analysis data")
                 ELSE score_decision(ClaimedScores, trader_min_confidence)

Sources == {"technical", "news", "social", "market"}

\* The analysis with one entry exchanged.
WithEntry(source, entry) == [cycle_analysis EXCEPT ![source] = entry]

\* What the AI answered in this cycle, if it was asked.
GivenAIAnswer == IF ai_out.called THEN ai_out.result ELSE NoCall

\* C10: for each of technical, news, social and market, the decision is the
\* same when the entry is missing as when it is {success: false, error},
\* with the other entries and the configuration the same, the AI giving the
\* same answer and the risk server answering the request it is sent.
C10_AbsentAndFailedAlike ==
    Decided =>
        \A source \in Sources :
            cycle_analysis[source] \in {Missing, Failed} =>
                \A entry \in {Missing, Failed} :
                    make_trading_decision(
                        WithEntry(source, entry), mcp_connections,
                        trader_min_confidence, DEFAULT_RISK_PER_TRADE,
                        GivenAIAnswer,
                        risk_server_answer(position_size_request(
                            WithEntry(source, entry), DEFAULT_RISK_PER_TRADE)))
                        = Run(decision, cycle_calls)

\* A trade decided by the fallback on partial data: news failed, social
\* missing.
C10_Witness ==
    /\ Decided /\ FallbackEvaluated
    /\ cycle_analysis.news = Failed
    /\ cycle_analysis.social = Missing
    /\ decision.value.should_trade

-----------------------------------------------------------------------------
(* Confidence values (C11).                                                *)

InUnitInterval(x) == RLe(Zero, x) /\ RLe(x, One)

-----------------------------------------------------------------------------
(* The capped result (C12).                                                *)

\* A valid call with a price risk whose uncapped notional exceeds the cap.
CappedCase ==
    /\ SizerCase
    /\ ps_in.args.entry_price # ps_in.args.stop_loss_price
    /\ ~ps_out.result.raised
    /\ RLt(PositionCap(ps_in.args), UncappedNotional(ps_in.args))

ScenarioA ==
    /\ ps_out.called
    /\ ps_in.args = [account_balance |-> Rat(10000, 1),
                     risk_per_trade |-> Rat(2, 100),
                     entry_price |-> Rat(50000, 1),
                     stop_loss_price |-> Rat(48000, 1),
                     method |-> "fixed_percent"]

ScenarioAResult ==
    /\ ~ps_out.result.raised
    /\ ps_out.result.value
           = [quantity |-> Rat(4, 100), notional_value |-> Rat(2000, 1),
              risk_amount |-> Rat(200, 1), confidence |-> Rat(64, 100)]

\* C12 as stated: when capping occurs the quantity is (account_balance *
\* 0.20) / entry_price, the notional value is the cap and the risk amount is
\* account_balance * risk_per_trade; scenario A gives risk_amount 200,
\* quantity 0.04, notional_value 2000, confidence 0.64.
C12_AsStated ==
    /\ CappedCase =>
           /\ ps_out.result.value.quantity
                  = RDiv(PositionCap(ps_in.args), ps_in.args.entry_price)
           /\ ps_out.result.value.notional_value = PositionCap(ps_in.args)
           /\ ps_out.result.value.risk_amount
                  = RMul(ps_in.args.account_balance,
                         ps_in.args.risk_per_trade)
    /\ ScenarioA => ScenarioAResult

\* C12 as amended: when capping occurs the returned quantity is (account_
\* balance * 0.20) / entry_price rounded to 8 decimals, the notional value
\* is the cap rounded to 2 decimals and the risk amount is account_balance *
\* risk_per_trade rounded to 2 decimals; scenario A gives risk_amount 200,
\* quantity 0.04, notional_value 2000, confidence 0.64.
C12_CappedResultRounded ==
    /\ CappedCase =>
           /\ ps_out.result.value.quantity
                  = Round(RDiv(PositionCap(ps_in.args),
                               ps_in.args.entry_price), 8)
           /\ ps_out.result.value.notional_value
                  = Round(PositionCap(ps_in.args), 2)
           /\ ps_out.result.value.risk_amount
                  = Round(RMul(ps_in.args.account_balance,
                               ps_in.args.risk_per_trade), 2)
    /\ ScenarioA => ScenarioAResult

\* Scenario A has been served and was capped.
C12_Witness == ScenarioA /\ CappedCase /\ ScenarioAResult

-----------------------------------------------------------------------------
(* The quantities of the methods (C13, C14).                               *)

PriceRisk(a) == RAbs(RSub(a.entry_price, a.stop_loss_price))

RiskAmount(a) == RMul(a.account_balance, a.risk_per_trade)

\* A valid call of the method with a price risk, whose notional does not
\* exceed the cap.
UncappedCase(method) ==
    /\ SizerCase
    /\ ps_in.args.method = method
    /\ ps_in.args.entry_price # ps_in.args.stop_loss_price
    /\ RLe(UncappedNotional(ps_in.args), PositionCap(ps_in.args))

\* Half a unit of the 8th decimal.
HalfUlp8 == Rat(5, 1000000000)

\* C13: for fixed_percent and every valid input whose notional does not
\* exceed the cap, quantity * |entry_price - stop_loss_price| equals
\* account_balance * risk_per_trade up to the rounding of the quantity to 8
\* decimals, and the confidence is 0.8.
C13_FixedPercentRisksTheRiskAmount ==
    UncappedCase("fixed_percent") =>
        /\ ~ps_out.result.raised
        /\ ps_out.result.value.quantity
               = Round(RDiv(RiskAmount(ps_in.args), PriceRisk(ps_in.args)), 8)
        /\ RLe(RAbs(RSub(RMul(ps_out.result.value.quantity,
                              PriceRisk(ps_in.args)),
                         RiskAmount(ps_in.args))),
               RMul(HalfUlp8, PriceRisk(ps_in.args)))
        /\ ps_out.result.value.confidence = Rat(8, 10)

\* An uncapped fixed_percent result whose quantity was changed by the
\* rounding.
C13_Witness ==
    /\ UncappedCase("fixed_percent")
    /\ ~ps_out.result.raised
    /\ RMul(ps_out.result.value.quantity, PriceRisk(ps_in.args))
           # RiskAmount(ps_in.args)
    /\ ps_out.result.value.confidence = Rat(8, 10)

\* C14: for volatility and every valid input whose notional does not exceed
\* the cap, the quantity is (account_balance * risk_per_trade * 0.8) /
\* |entry_price - stop_loss_price|, i.e. 0.8 times the fixed_percent
\* quantity, and the confidence is 0.7.
C14_VolatilityScalesRiskDown ==
    UncappedCase("volatility") =>
        /\ ~ps_out.result.raised
        /\ ps_out.result.value.quantity
               = Round(RDiv(RMul(RiskAmount(ps_in.args), Rat(8, 10)),
                            PriceRisk(ps_in.args)), 8)
        /\ ps_out.result.value.confidence = Rat(7, 10)

\* What the code returns in that case: 1 / 0.8 = 1.25 times the
\* fixed_percent quantity, with confidence 0.7.
C14_VolatilityScalesRiskUp ==
    UncappedCase("volatility") =>
        /\ ~ps_out.result.raised
        /\ ps_out.result.value.quantity
               = Round(RMul(Rat(125, 100),
                            RDiv(RiskAmount(ps_in.args),
                                 PriceRisk(ps_in.args))), 8)
        /\ ps_out.result.value.confidence = Rat(7, 10)

-----------------------------------------------------------------------------
(* Validation before computation (C15).                                    *)

RangesValid(a) ==
    /\ RLe(Rat(1, 100), a.account_balance)
    /\ RLe(Rat(1, 1000), a.risk_per_trade)
    /\ RLe(a.risk_per_trade, Rat(5, 10))
    /\ RLe(Rat(1, 100), a.entry_price)
    /\ RLe(Rat(1, 100), a.stop_loss_price)

\* C15: an out-of-range account_balance, risk_per_trade, entry_price or
\* stop_loss_price, or a method name outside fixed_percent, kelly,
\* volatility, raises a ValidationError (the method error listing the valid
\* methods), also when entry_price equals stop_loss_price, and no result is
\* produced: the tool answers success false with the validation error.
C15_ValidationBeforeComputation ==
    (ps_out.called /\ ~SizerArgsValid(ps_in.args)) =>
        /\ ps_out.result.raised
        /\ ps_out.result.exc.type = "ValidationError"
        /\ RangesValid(ps_in.args)
               => ps_out.result.exc.valid_methods
                      = {"fixed_percent", "kelly", "volatility"}
        /\ ~ps_out.response.success
        /\ ps_out.response.error.code = "VALIDATION_ERROR"

\* An unknown method with entry_price equal to stop_loss_price: the
\* ValidationError is raised, not the error of the zero price risk.
C15_Witness ==
    /\ ps_out.called
    /\ RangesValid(ps_in.args)
    /\ ps_in.args.method = "martingale"
    /\ ps_in.args.entry_price = ps_in.args.stop_loss_price
    /\ ps_out.result.raised
    /\ ps_out.result.exc.type = "ValidationError"
    /\ ps_out.result.exc.valid_methods # {}

-----------------------------------------------------------------------------
(* The failures of optimize_kelly_criterion (C16).                         *)

\* C16: with win_rate <= 0 or win_rate >= 1, or avg_win <= 0 or avg_loss <= 0,
\* optimize_kelly_criterion returns success false with no kelly_calculation
\* and no interpretation; with valid inputs it always returns success true.
C16_KellyFailsOnlyOnInvalidInput ==
    kelly_out.called =>
        IF KellyArgsValid(kelly_in.args)
        THEN kelly_out.response.success
        ELSE /\ ~kelly_out.response.success
             /\ "kelly_calculation" \notin DOMAIN kelly_out.response
             /\ "interpretation" \notin DOMAIN kelly_out.response

\* The half of C16 that holds: invalid inputs give a failure without a
\* partial result.
C16_InvalidInputFails ==
    (kelly_out.called /\ ~KellyArgsValid(kelly_in.args)) =>
        /\ ~kelly_out.response.success
        /\ DOMAIN kelly_out.response = {"success", "error"}

-----------------------------------------------------------------------------
(* The maximum drawdown (C17).                                             *)

\* C17: calculate_max_drawdown returns a value in [0,1] for every P&L
\* history, and 0 when the history has fewer than 2 points.
C17_MaxDrawdownInUnitInterval ==
    max_drawdown_call.called =>
        /\ ~max_drawdown_call.result.raised
        /\ InUnitInterval(max_drawdown_call.result.value)
        /\ Len(max_drawdown_call.pnl_history) < 2
               => max_drawdown_call.result.value = Zero

\* What does hold: the value is never negative, and 0 for a short history.
C17_MaxDrawdownNotNegative ==
    max_drawdown_call.called =>
        /\ ~max_drawdown_call.result.raised
        /\ RLe(Zero, max_drawdown_call.result.value)
        /\ Len(max_drawdown_call.pnl_history) < 2
               => max_drawdown_call.result.value = Zero

-----------------------------------------------------------------------------
(* The correlation risk (C18).                                             *)

HasBTC(symbol) == contains(symbol, <<"B", "T", "C">>)

HasETH(symbol) == contains(symbol, <<"E", "T", "H">>)

EndsInUSDT(symbol) == endswith(symbol, <<"U", "S", "D", "T">>)

\* The value the specification gives an unordered pair.
ClaimedPairValue(a, b) ==
    CASE HasBTC(a) /\ HasBTC(b) -> Rat(95, 100)
      [] ~(HasBTC(a) /\ HasBTC(b))
           /\ (HasBTC(a) \/ HasETH(a)) /\ (HasBTC(b) \/ HasETH(b))
           -> Rat(85, 100)
      [] ~((HasBTC(a) \/ HasETH(a)) /\ (HasBTC(b) \/ HasETH(b)))
           /\ EndsInUSDT(a) /\ EndsInUSDT(b) -> Rat(70, 100)
      [] OTHER -> Rat(60, 100)

ClaimedPairValues(symbols) ==
    {ClaimedPairValue(symbols[p[1]], symbols[p[2]]) :
        p \in {q \in (DOMAIN symbols) \X (DOMAIN symbols) : q[1] < q[2]}}

C18_WitnessMedium ==
    /\ correlation_call.called
    /\ Len(correlation_call.symbols) = 3
    /\ correlation_call.result.value.max_correlation = Rat(70, 100)
    /\ correlation_call.result.value.risk_level = "medium"

-----------------------------------------------------------------------------
(* The alerts of the calculator (C19).                                     *)

AlertMetrics == {"var_1d", "max_drawdown", "correlation_risk", "sharpe_ratio"}

\* The metrics and levels of a list of alerts.
Alerted(alerts) == {<<alerts[i].metric, alerts[i].level>> : i \in DOMAIN alerts}

MetricsOf(alerts) == {alerts[i].metric : i \in DOMAIN alerts}

\* The conditions of the four rules, as the specification states them.
VarBreached(m, p) ==
    RLt(RMul(p.max_portfolio_risk, Rat(100000, 1)), m.var_1d)

DrawdownBreached(m, p) == RLt(p.max_drawdown, m.max_drawdown)

CorrelationHigh(m) == m.correlation_risk = "high"

SharpeLow(m) == m.sharpe_ratio.some /\ RLt(m.sharpe_ratio.v, Rat(5, 10))

\* Every subset of the four alerts is what some call returns.
EverySubsetOfAlertsReturned ==
    \A subset \in SUBSET AlertMetrics :
        \E m \in MetricsInputs, p \in ParameterInputs :
            MetricsOf(generate_risk_alerts(m, p).value) = subset

\* C19: the list returned by RiskCalculator.generate_risk_alerts contains a
\* var_1d warning iff var_1d > max_portfolio_risk * 100000, a max_drawdown
\* critical alert iff max_drawdown > params.max_drawdown, a correlation_risk
\* warning iff correlation_risk is high, and a sharpe_ratio warning iff
\* sharpe_ratio is present and below 0.5; each at most once; the list is
\* empty iff no condition holds; every subset of the four is returned by
\* some call.
C19_AlertRulesIndependent ==
    risk_alerts_call.called =>
        LET m == risk_alerts_call.portfolio_metrics
            p == risk_alerts_call.risk_params
            alerts == risk_alerts_call.result.value
        IN  /\ ~risk_alerts_call.result.raised
            /\ Alerted(alerts) \subseteq
                   {<<"var_1d", "warning">>, <<"max_drawdown", "critical">>,
                    <<"correlation_risk", "warning">>,
                    <<"sharpe_ratio", "warning">>}
            /\ Len(alerts) = Cardinality(MetricsOf(alerts))
            /\ "var_1d" \in MetricsOf(alerts) <=> VarBreached(m, p)
            /\ "max_drawdown" \in MetricsOf(alerts) <=> DrawdownBreached(m, p)
            /\ "correlation_risk" \in MetricsOf(alerts) <=> CorrelationHigh(m)
            /\ "sharpe_ratio" \in MetricsOf(alerts) <=> SharpeLow(m)
            /\ alerts = <<>>
                   <=> ~(VarBreached(m, p) \/ DrawdownBreached(m, p)
                           \/ CorrelationHigh(m) \/ SharpeLow(m))
            /\ EverySubsetOfAlertsReturned

\* All four rules fire in one call.
C19_Witness ==
    /\ risk_alerts_call.called
    /\ MetricsOf(risk_alerts_call.result.value) = AlertMetrics
    /\ Len(risk_alerts_call.result.value) = 4

\* Only the last rule fires although the first three were evaluated.
C19_WitnessLastOnly ==
    /\ risk_alerts_call.called
    /\ MetricsOf(risk_alerts_call.result.value) = {"sharpe_ratio"}

C19_WitnessNone ==
    /\ risk_alerts_call.called
    /\ risk_alerts_call.portfolio_metrics.sharpe_ratio = None
    /\ risk_alerts_call.result.value = <<>>

-----------------------------------------------------------------------------
(* The risk score of the generate_risk_alerts tool (C20).                  *)

\* The sum of the breached weights, as the specification states them.
ClaimedScore(a) ==
    (IF RLt(Rat(5, 100), a.current_drawdown) THEN 30 ELSE 0)
    + (IF RLt(a.daily_pnl, Rat(-1000, 1)) THEN 20 ELSE 0)
    + (IF a.var_breaches > 0 THEN 15 ELSE 0)
    + (IF a.correlation_level = "high" THEN 20 ELSE 0)

\* C20: the generate_risk_alerts tool returns a risk_score in 0..100 equal
\* to the sum of the breached weights (30 if current_drawdown > 0.05, 20 if
\* daily_pnl < -1000, 15 if var_breaches > 0, 20 if correlation_level is
\* high) and a risk_level that is low iff the score < 25, medium iff
\* 25 <= score < 60, and high otherwise.
C20_RiskScoreAndLevel ==
    alerts_tool_call.called =>
        LET answer == alerts_tool_call.response
        IN  /\ answer.success
            /\ answer.risk_score \in 0..100
            /\ answer.risk_score = ClaimedScore(alerts_tool_call.args)
            /\ answer.risk_level = "low" <=> answer.risk_score < 25
            /\ answer.risk_level = "medium"
                   <=> (25 <= answer.risk_score /\ answer.risk_score < 60)
            /\ answer.risk_level = "high" <=> answer.risk_score >= 60

\* A drawdown between the stop-loss percentage and the warning threshold
\* and a moderate loss score 50 without raising any alert.
C20_Witness ==
    /\ alerts_tool_call.called
    /\ alerts_tool_call.args.current_drawdown = Rat(6, 100)
    /\ alerts_tool_call.args.daily_pnl = Rat(-100001, 100)
    /\ alerts_tool_call.response.risk_score = 50
    /\ alerts_tool_call.response.risk_level = "medium"
    /\ alerts_tool_call.response.alerts = <<>>

C20_WitnessHigh ==
    /\ alerts_tool_call.called
    /\ alerts_tool_call.response.risk_score = 85
    /\ alerts_tool_call.response.risk_level = "high"

C20_WitnessLow ==
    /\ alerts_tool_call.called
    /\ alerts_tool_call.response.risk_score = 20
    /\ alerts_tool_call.response.risk_level = "low"

-----------------------------------------------------------------------------
(* The prices of an AI-path trade (C21).                                   *)

\* The decision is a trade built from the AI's signal.
AIPathTrade ==
    /\ Decided
    /\ cycle_calls = <<"ai", "risk">>
    /\ ~decision.raised
    /\ decision.value.should_trade

AISignal == ai_out.result.value.signal

\* C21: on the AI path, when a trade is indicated, the stop-loss price
\* passed to the Position Sizer and returned as the decision's stop_loss is
\* the stop loss supplied by the AI signal, and the decision's take_profit is
\* the AI signal's target price.
C21_AIStopLossAndTarget ==
    AIPathTrade =>
        /\ AISignal.stop_loss.some
        /\ risk_out.args.stop_loss_price = AISignal.stop_loss.v
        /\ decision.value.stop_loss = AISignal.stop_loss.v
        /\ decision.value.take_profit = AISignal.target_price

\* What the code does: the stop loss is entry_price * (1 - 0.05); only the
\* take_profit comes from the signal.
C21_DefaultStopLossPercent ==
    AIPathTrade =>
        /\ risk_out.args.stop_loss_price
               = RMul(cycle_analysis.market.price, Rat(95, 100))
        /\ decision.value.stop_loss = risk_out.args.stop_loss_price
        /\ decision.value.take_profit = AISignal.target_price

-----------------------------------------------------------------------------
(* The failures of the risk tools (C22).                                   *)

\* The error of a response is handle_error's object with a code, a message
\* and a severity.
StructuredError(response) ==
    /\ response.error.dict
    /\ response.error.code # ""
    /\ response.error.message # ""
    /\ response.error.severity # ""

\* C22: every failure of a risk tool, input-validation failures included, is
\* a result with success false whose error is the structured object
\* produced by handle_error (code, message, severity, details).
C22_FailuresAreStructured ==
    /\ (ps_out.called /\ ~ps_out.response.success)
           => StructuredError(ps_out.response)
    /\ (kelly_out.called /\ ~kelly_out.response.success)
           => StructuredError(kelly_out.response)

\* What holds: the failures of calculate_position_size, and the failures of
\* optimize_kelly_criterion that come from an exception, are structured; the
\* validation failures of optimize_kelly_criterion carry a message string.
C22_StructuredUnlessKellyValidation ==
    /\ (ps_out.called /\ ~ps_out.response.success)
           => StructuredError(ps_out.response)
    /\ (kelly_out.called /\ ~kelly_out.response.success)
           => (StructuredError(kelly_out.response)
                   <=> KellyArgsValid(kelly_in.args))

-----------------------------------------------------------------------------
(* The loss at the stop (C28) and the kelly method (C30).                  *)

\* A valid call with a price risk that returned a result.
SizedCase ==
    /\ SizerCase
    /\ ps_in.args.entry_price # ps_in.args.stop_loss_price
    /\ ~ps_out.result.raised

\* C28: for every method and every successful result, quantity *
\* |entry_price - stop_loss_price| does not exceed the reported risk_amount,
\* which the tool also reports as max_loss.
C28_LossWithinRiskAmount ==
    SizedCase =>
        /\ RLe(RMul(ps_out.result.value.quantity, PriceRisk(ps_in.args)),
               ps_out.result.value.risk_amount)
        /\ ps_out.response.success
        /\ ps_out.response.risk_metrics.max_loss
               = ps_out.result.value.risk_amount

\* What holds: the tool reports the risk amount as max_loss, and the
\* fixed_percent method stays within it up to the rounding of the result.
C28_MaxLossIsRiskAmount ==
    SizedCase =>
        /\ ps_out.response.success
        /\ ps_out.response.risk_metrics.max_loss
               = ps_out.result.value.risk_amount
        /\ ps_in.args.method = "fixed_percent" =>
               RLe(RMul(ps_out.result.value.quantity, PriceRisk(ps_in.args)),
                   RAdd(RAdd(RiskAmount(ps_in.args),
                             RMul(HalfUlp8, PriceRisk(ps_in.args))),
                        Rat(1, 100)))

\* The quantity the same call returns with another risk_per_trade.
QuantityWithRisk(a, risk_per_trade) ==
    calculate_position_size(a.account_balance, risk_per_trade, a.entry_price,
                            a.stop_loss_price, a.method).value.quantity

ValidRisks == {Rat(1, 1000), Rat(2, 100), Rat(5, 10)}

KellyCase == SizedCase /\ ps_in.args.method = "kelly"

\* The kelly quantity: 0.25 * account_balance / price_risk before the cap,
\* the same for every risk_per_trade.
KellyQuantityIgnoresRisk ==
    /\ kelly_fraction(PriceRisk(ps_in.args)) = Rat(25, 100)
    /\ RLe(UncappedNotional(ps_in.args), PositionCap(ps_in.args)) =>
           ps_out.result.value.quantity
               = Round(RDiv(RMul(Rat(25, 100), ps_in.args.account_balance),
                            PriceRisk(ps_in.args)), 8)
    /\ \A r \in ValidRisks :
           QuantityWithRisk(ps_in.args, r) = ps_out.result.value.quantity

\* C30 as stated: for method kelly the fraction is 0.25 for all validated
\* inputs, the quantity before capping is 0.25 * account_balance /
\* price_risk, the returned quantity does not depend on risk_per_trade, and
\* the returned risk_amount equals account_balance * risk_per_trade.
C30_AsStated ==
    KellyCase =>
        /\ KellyQuantityIgnoresRisk
        /\ ps_out.result.value.risk_amount = RiskAmount(ps_in.args)

\* C30 as amended: the same, with the returned risk_amount equal to
\* account_balance * risk_per_trade rounded to 2 decimals.
C30_KellyIgnoresRiskPerTrade ==
    KellyCase =>
        /\ KellyQuantityIgnoresRisk
        /\ ps_out.result.value.risk_amount
               = Round(RiskAmount(ps_in.args), 2)

\* An uncapped kelly result whose risk_amount is not what the quantity
\* loses at the stop.
C30_Witness ==
    /\ KellyCase
    /\ RLe(UncappedNotional(ps_in.args), PositionCap(ps_in.args))
    /\ ps_in.args.risk_per_trade = Rat(1, 1000)
    /\ ps_out.result.value.quantity
           = RDiv(RMul(Rat(25, 100), ps_in.args.account_balance),
                  PriceRisk(ps_in.args))
    /\ ps_out.result.value.risk_amount = RiskAmount(ps_in.args)

-----------------------------------------------------------------------------
(* The range of the rule-based confidence (C29).                           *)

InRuleRange(x) == RLe(Rat(3, 10), x) /\ RLe(x, Rat(8, 10))

\* C29: the confidence the rule-based fallback computes lies in [0.3, 0.8]
\* for every analysis; whenever min_confidence > 0.8 the fallback never
\* returns should_trade true.
C29_RuleConfidenceRange ==
    /\ FallbackScored =>
           /\ InRuleRange(rule_confidence(CodeScore))
           /\ (~decision.raised /\ decision.value.should_trade) =>
                  InRuleRange(decision.value.confidence)
    /\ (Decided /\ FallbackEvaluated /\ RLt(Rat(8, 10), trader_min_confidence))
           => (~decision.raised /\ ~decision.value.should_trade)

\* A score of 0.6 or more in size under min_confidence 0.9: the confidence
\* is cut to 0.8 and the fallback does not trade.
C29_Witness ==
    /\ FallbackScored
    /\ trader_min_confidence = Rat(9, 10)
    /\ RLe(Rat(6, 10), RAbs(CodeScore))
    /\ rule_confidence(CodeScore) = Rat(8, 10)
    /\ decision.value = NoTrade("No clear signal")

\* The lower end: a score of 0 gives confidence 0.3.
C29_WitnessLow ==
    /\ FallbackScored
    /\ CodeScore = Zero
    /\ rule_confidence(CodeScore) = Rat(3, 10)

-----------------------------------------------------------------------------
(* The entry price of an AI-path trade (C27).                              *)

\* The AI answered with a signal, so the decision is made on the AI path.
OnAIPath == Decided /\ AIAnswered /\ ai_out.result.value.success

MarketUnavailable ==
    ~(cycle_analysis.market.present /\ cycle_analysis.market.success)

\* C27: with the Position Sizer of the risk server behind the call, a
\* decision on the AI path is should_trade false when the market source is
\* absent or failed (price taken as 0), and every AI-path trade has
\* entry_price >= 0.01 and 0 < stop_loss < entry_price.
C27_NoTradeWithoutPrice ==
    /\ (OnAIPath /\ MarketUnavailable) =>
           (~decision.raised /\ ~decision.value.should_trade)
    /\ AIPathTrade =>
           /\ RLe(Rat(1, 100), decision.value.entry_price)
           /\ RLt(Zero, decision.value.stop_loss)
           /\ RLt(decision.value.stop_loss, decision.value.entry_price)

\* The signal passed the gate without a market price: the sizer was asked
\* with entry price 0 and refused.
C27_Witness ==
    /\ OnAIPath /\ MarketUnavailable
    /\ risk_out.called
    /\ risk_out.args.entry_price = Zero
    /\ ~risk_out.result.value.success
    /\ risk_out.result.value.error.code = "VALIDATION_ERROR"
    /\ decision.value = NoTrade("Confidence below threshold")

\* An entry price of 0.01 is accepted, its stop loss 0.0095 is not.
C27_WitnessSmallPrice ==
    /\ OnAIPath
    /\ risk_out.called
    /\ risk_out.args.entry_price = Rat(1, 100)
    /\ ~risk_out.result.value.success
    /\ ~decision.value.should_trade

-----------------------------------------------------------------------------
(* C25: the time to live of a cached value.                                *)

\* The last set of the key still counts and the time has not passed its
\* set time plus its time to live.
WithinTtl(key) ==
    /\ last_set[key].made
    /\ clock <= last_set[key].at + last_set[key].ttl_seconds

\* What a get of the key has just returned is the value of the last set while
\* the time to live lasts, and None with the item gone from the dict
\* otherwise.
GetAnswersBySetTime ==
    cache_call.op = "get" =>
        IF WithinTtl(cache_call.key)
        THEN cache_call.result = Value(last_set[cache_call.key].value)
        ELSE /\ cache_call.result = NoValue
             /\ ~cache[cache_call.key].present

\* A key that is absent comes back only by a set of that key.
AbsentUntilSet ==
    \A key \in CacheKeys :
        (~cache[key].present /\ cache'[key].present) =>
            (cache_call'.op = "set" /\ cache_call'.key = key)

\* C25: after set(key, value, ttl), get(key) returns value as long as the
\* current time has not passed the set time plus ttl; once it has, get(key)
\* returns None and removes the item, and the key stays absent until the
\* next set of that key.
C25_TimeToLive == [](GetAnswersBySetTime) /\ [][AbsentUntilSet]_vars

\* A get exactly at the deadline still returns the value.
C25_Witness ==
    /\ cache_call.op = "get"
    /\ last_set[cache_call.key].made
    /\ last_set[cache_call.key].ttl_seconds > 0
    /\ clock = last_set[cache_call.key].at + last_set[cache_call.key].ttl_seconds
    /\ cache_call.result = Value(last_set[cache_call.key].value)

\* A get after the deadline has returned None and removed the item.
C25_WitnessExpired ==
    /\ cache_call.op = "get"
    /\ last_set[cache_call.key].made
    /\ clock > last_set[cache_call.key].at + last_set[cache_call.key].ttl_seconds
    /\ cache_call.result = NoValue
    /\ ~cache[cache_call.key].present

-----------------------------------------------------------------------------
(* C23: paper trading.                                                     *)

\* The step in which the loop runs execute_trade on its decision.
ExecuteTradeStep ==
    /\ pc = "decided"
    /\ pc' = "executed"
    /\ decision.value.should_trade

PaperTradeOnly ==
    (paper_trading /\ ExecuteTradeStep) =>
        /\ orders' = orders
        /\ Len(trade_history') = Len(trade_history) + 1
        /\ SubSeq(trade_history', 1, Len(trade_history)) = trade_history
        /\ trade_history'[Len(trade_history')].paper_trade
        /\ execution'.called
        /\ execution'.result.success
        /\ execution'.result.paper_trade

\* C23: while paper_trading is true, execute_trade sends no place_order to
\* the exchange for any decision: it appends exactly one record marked
\* paper_trade to trade_history and returns success true with paper_trade
\* true.
C23_PaperTradeOnly == [][PaperTradeOnly]_vars

\* A second paper trade has been recorded, with the exchange connected and
\* no order sent.
C23_Witness ==
    /\ paper_trading
    /\ pc = "executed"
    /\ execution.called
    /\ "binance" \in mcp_connections
    /\ Len(trade_history) = 2
    /\ orders = <<>>

-----------------------------------------------------------------------------
(* C24: the sources of an analysis fail independently.                     *)

TaskRaised(key) == tasks[key].state = "done" /\ tasks[key].result.raised

TaskReturned(key) == tasks[key].state = "done" /\ ~tasks[key].result.raised

\* C24: whatever subset of the gathered source calls raises, every other
\* source's result is recorded as it was returned, each source that raised
\* is recorded as {success: false, error}, the analysis returns success
\* true, and sources_available is the number of recorded sources with
\* success true.
C24_SourcesFailIndependently ==
    analysis_out.called =>
        /\ analysis_out.success
        /\ \A key \in SourceKeys :
               /\ TaskReturned(key) =>
                      cycle_analysis[key] = tasks[key].result.value
               /\ TaskRaised(key) =>
                      /\ cycle_analysis[key].present
                      /\ ~cycle_analysis[key].success
                      /\ cycle_analysis[key].error = str(tasks[key].result.exc)
                      /\ cycle_analysis[key].error # ""
               /\ tasks[key].state = "none" => ~cycle_analysis[key].present
        /\ analysis_out.sources_available =
               Cardinality({key \in SourceKeys :
                                cycle_analysis[key].present
                                    /\ cycle_analysis[key].success})

\* Two sources raised, one returned a failure of its own and one succeeded.
C24_Witness ==
    /\ analysis_out.called
    /\ TaskRaised("news")
    /\ TaskRaised("technical")
    /\ TaskReturned("social")
    /\ cycle_analysis.social.success
    /\ TaskReturned("market")
    /\ ~cycle_analysis.market.success
    /\ analysis_out.sources_available = 1

\* Every source raised.
C24_WitnessAllRaised ==
    /\ analysis_out.called
    /\ \A key \in SourceKeys : TaskRaised(key)
    /\ analysis_out.sources_available = 0

-----------------------------------------------------------------------------
(* C26: the emergency stop and the end of the trading loop.                *)

\* Once emergency_stop is true no step connects, analyses or trades.
NothingOnceStopped ==
    emergency_stop =>
        /\ cycles' = cycles
        /\ mcp_connections' = mcp_connections
        /\ analysis_out' = analysis_out
        /\ execution' = execution
        /\ trade_history' = trade_history
        /\ orders' = orders
        /\ loop_pc' # "running"

\* The step in which the loop catches an exception.
LastCaught == caught'[Len(caught')]

CaughtStep == Len(caught') = Len(caught) + 1

CaughtIsHandled ==
    CaughtStep =>
        IF LastCaught.type = "TradingSystemError"
              /\ LastCaught.severity \in {"high", "critical"}
        THEN emergency_stop' /\ loop_pc' = "shutdown"
        ELSE IF LastCaught # KeyboardInterrupt
        THEN /\ emergency_stop' = emergency_stop
             /\ loop_pc' = "running"
             /\ pc' = "idle"
        ELSE loop_pc' = "shutdown"

\* The loop ends by disconnecting, and only the loop disconnects.
LoopEndsDisconnected ==
    /\ (loop_pc = "running" /\ loop_pc' # "running") =>
           /\ loop_pc' = "shutdown"
           /\ disconnects' = disconnects + 1
           /\ mcp_connections' = {}
    /\ loop_pc # "running" => disconnects' = disconnects

\* C26: once emergency_stop is true no analysis cycle starts and no trade is
\* executed; with emergency_stop set at start nothing is connected or
\* analysed; a TradingSystemError of severity high or critical in a cycle
\* sets emergency_stop and ends the loop; any other exception in a cycle
\* leaves the loop running for the next cycle; and whenever the loop was
\* entered, disconnect_all runs when it ends.
C26_EmergencyStop ==
    [][NothingOnceStopped /\ CaughtIsHandled /\ LoopEndsDisconnected]_vars

\* A high-severity error has stopped a loop that had traded before.
C26_Witness ==
    /\ loop_pc = "shutdown"
    /\ emergency_stop
    /\ disconnects = 1
    /\ caught # <<>>
    /\ caught[Len(caught)].severity = "high"
    /\ trade_history # <<>>

\* After an error of medium severity the next cycle has started.
C26_WitnessNextCycle ==
    /\ loop_pc = "running"
    /\ Len(caught) = 1
    /\ caught[1].type = "TradingSystemError"
    /\ caught[1].severity = "medium"
    /\ cycles = 2
    /\ pc = "gathering"

\* The trader was started with the emergency stop on.
C26_WitnessRefused ==
    /\ loop_pc = "refused"
    /\ emergency_stop
    /\ mcp_connections = {}
    /\ cycles = 0
    /\ disconnects = 0

=============================================================================
